---- MODULE Spec2Model ----
(***************************************************************************)
(* Model of the consent-gated routing core of rpp-spec:                     *)
(*   rpp/transitions.py    DwellTimer, ConsentReflector, FallbackGate,      *)
(*                         ETFGate, TransitionManager                       *)
(*   rpp/sector_router.py  can_access_sector, route_to_sector               *)
(*   rpp/consent_header.py ConsentPacketHeader codec and CRC-8              *)
(*   rpp/address_canonical.py RPPAddress to_int / from_int                  *)
(*   rpp/coherence.py      compute_coherence                                *)
(*   rpp/biofield.py       BiofieldBinding                                  *)
(*   rpp/pma.py            PMABuffer                                        *)
(*   rpp/hnc.py            HarmonicNexusCore                                *)
(*                                                                          *)
(* One module, several specifications over one set of variables:            *)
(*   SpecDwell   a DwellTimer driven by request_transition and tick         *)
(*   SpecGates   a FallbackGate and an ETFGate driven by update             *)
(*   Spec        a TransitionManager driven by process_cycle                *)
(*   SpecRouter  route_to_sector over all its arguments                     *)
(*   SpecCodec   to_bytes / single-bit tampering / from_bytes               *)
(*   SpecCoherence  compute_coherence over a grid of input levels           *)
(*   SpecBiofield   a BiofieldBinding driven by updates, dephase and tick   *)
(*   SpecBuffer     a PMABuffer driven by write                             *)
(*   SpecHnc        a HarmonicNexusCore driven by its fragment operations   *)
(***************************************************************************)
EXTENDS Integers, Sequences, FiniteSets, TLC

VARIABLES
    dwell_timer,    \* DwellTimer fields
    reflector,      \* ConsentReflector fields
    fallback_gate,  \* FallbackGate fields
    etf_gate,       \* ETFGate fields
    current_cycle,  \* TransitionManager._current_cycle
    result,         \* what the last call returned
    last,           \* the last call: operation, arguments, state before it
    run,            \* observers: lengths of the runs of calls in progress
    query,          \* arguments of the last route_to_sector call
    decision,       \* the RoutingDecision it returned
    header,         \* the ConsentPacketHeader being encoded
    data,           \* the bytes to_bytes returned
    wire,           \* the bytes handed to from_bytes
    decoded,        \* what from_bytes returned or raised
    stage,          \* position of the codec scenario
    validation,     \* what the last validate() returned
    derived,        \* what the last consent-state derivation returned
    pair,           \* two TransitionManagers and the objects they hold
    coh,            \* arguments and CoherenceResult of the last computation
    biofield,       \* BiofieldBinding fields
    buffer,         \* PMABuffer fields
    hnc,            \* HNC fields
    mesh            \* FragmentMesh fields

timerVars  == <<dwell_timer, reflector, fallback_gate, etf_gate, current_cycle,
                result, last, run>>
routerVars == <<query, decision>>
codecVars  == <<header, data, wire, decoded, stage, validation>>
otherVars  == <<derived, pair, coh, biofield, buffer, hnc, mesh>>
vars       == <<dwell_timer, reflector, fallback_gate, etf_gate, current_cycle,
                result, last, run, query, decision,
                header, data, wire, decoded, stage, validation, derived,
                pair, coh, biofield, buffer, hnc, mesh>>

\* Python's None
None == -1

(***************************************************************************)
(* Bounds of the model                                                      *)
(***************************************************************************)
\* SpecDwell: tick() is not called once cycles_in_state has reached this
MaxDwellCycles == 21
\* SpecGates: update() stops counting up at this many consecutive ticks
MaxGateCycles == 15
\* Spec: process_cycle() is not called once the cycle count has reached this
MaxCycle == 6
\* SpecEmergency: the same, for the run under a sustained emergency
MaxEmergencyCycle == 14
\* SpecReflector: tick() is not called once this many ticks have passed
\* since the detected state last changed
MaxReflectorTicks == 6
\* SpecTotal: process_cycle() is not called once the cycle count has
\* reached this
MaxTotalCycle == 3
\* SpecPair: process_cycle() is not called on a manager once its cycle
\* count has reached this
MaxPairCycle == 2
\* SpecFlicker: process_cycle() is not called once the cycle count has
\* reached this
MaxFlickerCycle == 8
MaxResetCycle == 14
\* SpecMesh: create_message is not called once the counter has reached this
MaxMessages == 2

(***************************************************************************)
(* rpp/ra_constants.py                                                      *)
(***************************************************************************)
KHAT_DURATION == 12
ETF_DURATION == 9
DWELL_BASE == 3
DWELL_FULL == 19
REFLECTION_DELAY == 4
\* FallbackGate.__init__ default threshold
FALLBACK_THRESHOLD == 137

(***************************************************************************)
(* rpp/consent_header.py: ConsentState (IntEnum)                            *)
(***************************************************************************)
FULL_CONSENT == 0
ATTENTIVE == 1
DIMINISHED_CONSENT == 2
SUSPENDED_CONSENT == 3
EMERGENCY_OVERRIDE == 4

ConsentState == {FULL_CONSENT, ATTENTIVE, DIMINISHED_CONSENT,
                 SUSPENDED_CONSENT, EMERGENCY_OVERRIDE}

(***************************************************************************)
(* rpp/transitions.py: TransitionDirection                                  *)
(***************************************************************************)
NONE == 0
UPGRADE == 1
DOWNGRADE == 2

(***************************************************************************)
(* rpp/transitions.py: DwellTimer                                           *)
(***************************************************************************)
DwellTimerInit ==
    [current_state |-> None, cycles_in_state |-> 0,
     target_state |-> None, cycles_at_target |-> 0]

\* mutant: set_state leaves the pending target and its count as they are
set_state_keep_target(t, state) ==
    IF state # t.current_state
    THEN [t EXCEPT !.current_state = state, !.cycles_in_state = 0]
    ELSE t

set_state(t, state) ==
    IF state # t.current_state
    THEN [current_state |-> state, cycles_in_state |-> 0,
          target_state |-> None, cycles_at_target |-> 0]
    ELSE t

DwellTimer_tick(t) ==
    [t EXCEPT !.cycles_in_state = @ + 1,
              !.cycles_at_target = IF t.target_state # None THEN @ + 1 ELSE @]

\* mutant: the two comparisons exchanged
get_direction_swapped(t, target) ==
    IF t.current_state = None THEN NONE
    ELSE IF target > t.current_state THEN UPGRADE
    ELSE IF target < t.current_state THEN DOWNGRADE
    ELSE NONE

get_direction(t, target) ==
    IF t.current_state = None THEN NONE
    ELSE IF target < t.current_state THEN UPGRADE
    ELSE IF target > t.current_state THEN DOWNGRADE
    ELSE NONE

\* mutant: FULL_CONSENT needs one cycle less
get_required_dwell_short(target) ==
    IF target = FULL_CONSENT THEN DWELL_FULL - 1
    ELSE IF target \in {ATTENTIVE, DIMINISHED_CONSENT} THEN DWELL_BASE
    ELSE 0

get_required_dwell(target) ==
    IF target = FULL_CONSENT THEN DWELL_FULL
    ELSE IF target \in {ATTENTIVE, DIMINISHED_CONSENT} THEN DWELL_BASE
    ELSE 0

\* mutant: a new target takes over the dwell count of the earlier one
request_transition_keep(t, target) ==
    IF t.current_state = None
    THEN [timer |-> set_state(t, target), ret |-> TRUE]
    ELSE IF target = t.current_state
    THEN [timer |-> t, ret |-> TRUE]
    ELSE IF get_direction(t, target) = DOWNGRADE
    THEN [timer |-> set_state(t, target), ret |-> TRUE]
    ELSE IF t.target_state # target
    THEN [timer |-> [t EXCEPT !.target_state = target], ret |-> FALSE]
    ELSE IF t.cycles_at_target >= get_required_dwell(target)
    THEN [timer |-> set_state(t, target), ret |-> TRUE]
    ELSE [timer |-> t, ret |-> FALSE]

\* request_transition: the timer after the call and the value returned
request_transition(t, target) ==
    IF t.current_state = None
    THEN [timer |-> set_state(t, target), ret |-> TRUE]
    ELSE IF target = t.current_state
    THEN [timer |-> t, ret |-> TRUE]
    ELSE IF get_direction(t, target) = DOWNGRADE
    THEN [timer |-> set_state(t, target), ret |-> TRUE]
    ELSE IF t.target_state # target
    THEN [timer |-> [t EXCEPT !.target_state = target, !.cycles_at_target = 0],
          ret |-> FALSE]
    ELSE IF t.cycles_at_target >= get_required_dwell(target)
    THEN [timer |-> set_state(t, target), ret |-> TRUE]
    ELSE [timer |-> t, ret |-> FALSE]

(***************************************************************************)
(* rpp/transitions.py: ConsentReflector                                     *)
(***************************************************************************)
ConsentReflectorInit ==
    [delay |-> REFLECTION_DELAY, detected_state |-> None,
     reflected_state |-> None, cycles_since_detection |-> 0,
     pending_reflection |-> FALSE]

detect(r, state) ==
    IF state # r.detected_state
    THEN [r EXCEPT !.detected_state = state,
                   !.cycles_since_detection = 0,
                   !.pending_reflection = TRUE]
    ELSE r

ConsentReflector_tick(r) ==
    IF r.pending_reflection
    THEN [r EXCEPT !.cycles_since_detection = @ + 1]
    ELSE r

\* mutant: the delay must be exceeded, not reached
should_reflect_late(r) ==
    r.pending_reflection /\ r.cycles_since_detection > r.delay

should_reflect(r) ==
    r.pending_reflection /\ r.cycles_since_detection >= r.delay

\* reflect: the reflector after the call and the value returned
reflect(r) ==
    IF should_reflect(r)
    THEN [reflector |-> [r EXCEPT !.reflected_state = r.detected_state,
                                  !.pending_reflection = FALSE],
          ret |-> r.detected_state]
    ELSE [reflector |-> r, ret |-> None]

(***************************************************************************)
(* rpp/transitions.py: FallbackGate                                         *)
(***************************************************************************)
FallbackGateInit ==
    [threshold |-> FALLBACK_THRESHOLD, below_threshold_cycles |-> 0,
     fallback_triggered |-> FALSE]

\* mutant: triggers at KHAT_DURATION instead of after it
FallbackGate_update_early(g, coherence) ==
    IF coherence < g.threshold
    THEN IF g.below_threshold_cycles + 1 >= KHAT_DURATION
         THEN [gate |-> [g EXCEPT !.below_threshold_cycles = @ + 1,
                                  !.fallback_triggered = TRUE],
               ret |-> TRUE]
         ELSE [gate |-> [g EXCEPT !.below_threshold_cycles = @ + 1],
               ret |-> FALSE]
    ELSE [gate |-> [g EXCEPT !.below_threshold_cycles = 0,
                             !.fallback_triggered = FALSE],
          ret |-> FALSE]

\* update: the gate after the call and the value returned
FallbackGate_update(g, coherence) ==
    IF coherence < g.threshold
    THEN IF g.below_threshold_cycles + 1 > KHAT_DURATION
         THEN [gate |-> [g EXCEPT !.below_threshold_cycles = @ + 1,
                                  !.fallback_triggered = TRUE],
               ret |-> TRUE]
         ELSE [gate |-> [g EXCEPT !.below_threshold_cycles = @ + 1],
               ret |-> FALSE]
    ELSE [gate |-> [g EXCEPT !.below_threshold_cycles = 0,
                             !.fallback_triggered = FALSE],
          ret |-> FALSE]

(***************************************************************************)
(* rpp/transitions.py: ETFGate                                              *)
(***************************************************************************)
ETFGateInit == [emergency_cycles |-> 0, etf_active |-> FALSE]

\* mutant: activates after ETF_DURATION instead of at it
ETFGate_update_late(g, is_emergency) ==
    IF is_emergency
    THEN IF g.emergency_cycles + 1 > ETF_DURATION
         THEN [gate |-> [g EXCEPT !.emergency_cycles = @ + 1,
                                  !.etf_active = TRUE],
               ret |-> TRUE]
         ELSE [gate |-> [g EXCEPT !.emergency_cycles = @ + 1],
               ret |-> FALSE]
    ELSE [gate |-> [emergency_cycles |-> 0, etf_active |-> FALSE],
          ret |-> FALSE]

ETFGate_update(g, is_emergency) ==
    IF is_emergency
    THEN IF g.emergency_cycles + 1 >= ETF_DURATION
         THEN [gate |-> [g EXCEPT !.emergency_cycles = @ + 1,
                                  !.etf_active = TRUE],
               ret |-> TRUE]
         ELSE [gate |-> [g EXCEPT !.emergency_cycles = @ + 1],
               ret |-> FALSE]
    ELSE [gate |-> [emergency_cycles |-> 0, etf_active |-> FALSE],
          ret |-> FALSE]

(***************************************************************************)
(* rpp/transitions.py: TransitionManager.process_cycle                      *)
(* The manager after the call and the dict returned.                        *)
(***************************************************************************)
\* mutant: the override reads the Emergency Gate before the gate is updated
process_cycle_stale(m, detected_state, coherence, is_emergency) ==
    LET cycle    == m.current_cycle + 1
        fb       == FallbackGate_update(m.fallback_gate, coherence)
        etf      == ETFGate_update(m.etf_gate, is_emergency)
        detected == IF m.etf_gate.etf_active THEN EMERGENCY_OVERRIDE
                    ELSE detected_state
        refl1    == detect(m.reflector, detected)
        req      == request_transition(m.dwell_timer, detected)
        timer    == DwellTimer_tick(req.timer)
        refl2    == ConsentReflector_tick(refl1)
        refl3    == reflect(refl2)
    IN  [manager |-> [dwell_timer |-> timer,
                      reflector |-> refl3.reflector,
                      fallback_gate |-> fb.gate,
                      etf_gate |-> etf.gate,
                      current_cycle |-> cycle],
         ret |-> [cycle |-> cycle,
                  detected_state |-> detected,
                  current_state |-> timer.current_state,
                  reflected_state |-> refl3.ret,
                  transition_allowed |-> req.ret,
                  fallback_triggered |-> fb.ret,
                  etf_active |-> etf.gate.etf_active,
                  dwell_cycles |-> timer.cycles_in_state]]

process_cycle(m, detected_state, coherence, is_emergency) ==
    LET cycle    == m.current_cycle + 1
        fb       == FallbackGate_update(m.fallback_gate, coherence)
        etf      == ETFGate_update(m.etf_gate, is_emergency)
        detected == IF etf.gate.etf_active THEN EMERGENCY_OVERRIDE
                    ELSE detected_state
        refl1    == detect(m.reflector, detected)
        req      == request_transition(m.dwell_timer, detected)
        timer    == DwellTimer_tick(req.timer)
        refl2    == ConsentReflector_tick(refl1)
        refl3    == reflect(refl2)
    IN  [manager |-> [dwell_timer |-> timer,
                      reflector |-> refl3.reflector,
                      fallback_gate |-> fb.gate,
                      etf_gate |-> etf.gate,
                      current_cycle |-> cycle],
         ret |-> [cycle |-> cycle,
                  detected_state |-> detected,
                  current_state |-> timer.current_state,
                  reflected_state |-> refl3.ret,
                  transition_allowed |-> req.ret,
                  fallback_triggered |-> fb.ret,
                  etf_active |-> etf.gate.etf_active,
                  dwell_cycles |-> timer.cycles_in_state]]

\* mutant: the counter is zeroed, the flag is left as it is
FallbackGate_reset_keep_flag(g) == [g EXCEPT !.below_threshold_cycles = 0]

\* FallbackGate.reset
FallbackGate_reset(g) ==
    [g EXCEPT !.below_threshold_cycles = 0, !.fallback_triggered = FALSE]

\* ETFGate.deactivate
ETFGate_deactivate(g) == [g EXCEPT !.etf_active = FALSE, !.emergency_cycles = 0]

\* mutant: the Dwell Timer is kept
reset_keep_timer(m) ==
    [dwell_timer |-> m.dwell_timer,
     reflector |-> ConsentReflectorInit,
     fallback_gate |-> FallbackGate_reset(m.fallback_gate),
     etf_gate |-> ETFGate_deactivate(m.etf_gate),
     current_cycle |-> 0]

\* TransitionManager.reset: the manager after the call
reset(m) ==
    [dwell_timer |-> DwellTimerInit,
     reflector |-> ConsentReflectorInit,
     fallback_gate |-> FallbackGate_reset(m.fallback_gate),
     etf_gate |-> ETFGate_deactivate(m.etf_gate),
     current_cycle |-> 0]

\* TransitionManager.__init__: a freshly created manager
TransitionManager_new ==
    [dwell_timer |-> DwellTimerInit, reflector |-> ConsentReflectorInit,
     fallback_gate |-> FallbackGateInit, etf_gate |-> ETFGateInit,
     current_cycle |-> 0]

\* the TransitionManager object made of the model's variables
Manager ==
    [dwell_timer |-> dwell_timer, reflector |-> reflector,
     fallback_gate |-> fallback_gate, etf_gate |-> etf_gate,
     current_cycle |-> current_cycle]

(***************************************************************************)
(* Values of the variables a specification does not use                     *)
(***************************************************************************)
NoCall == [op |-> "none"]
NoRun ==
    [seq |-> 0, armed |-> FALSE, below |-> 0, emergency |-> 0,
     streak |-> 0, target |-> None, displaced |-> None,
     since |-> 0, before |-> None, restarted |-> FALSE, held |-> 0,
     lag |-> 0]

TimerInit ==
    /\ dwell_timer = DwellTimerInit
    /\ reflector = ConsentReflectorInit
    /\ fallback_gate = FallbackGateInit
    /\ etf_gate = ETFGateInit
    /\ current_cycle = 0
    /\ result = None
    /\ last = NoCall
    /\ run = NoRun

RouterIdle == query = NoCall /\ decision = None

OtherIdle ==
    /\ derived = None
    /\ pair = None
    /\ coh = None
    /\ biofield = None
    /\ buffer = None
    /\ hnc = None
    /\ mesh = None

CodecIdle ==
    /\ header = None
    /\ data = <<>>
    /\ wire = <<>>
    /\ decoded = None
    /\ stage = "idle"
    /\ validation = None

(***************************************************************************)
(* SpecDwell: one DwellTimer, request_transition and tick in any order      *)
(***************************************************************************)
\* Observer: run.seq counts the requests for FULL_CONSENT made in strict
\* alternation with tick (request, tick, request, tick, ...) beginning at
\* a timer settled in ATTENTIVE (no pending target); run.armed says that
\* the last call was such a request.
SeqAfterRequest(t, target) ==
    IF target = FULL_CONSENT /\ t.current_state = ATTENTIVE
       /\ t.target_state = None
    THEN [run EXCEPT !.seq = 1, !.armed = TRUE]
    ELSE IF target = FULL_CONSENT /\ t.current_state = ATTENTIVE
            /\ run.seq > 0 /\ ~run.armed
    THEN [run EXCEPT !.seq = @ + 1, !.armed = TRUE]
    ELSE [run EXCEPT !.seq = 0, !.armed = FALSE]

SeqAfterTick ==
    IF run.armed THEN [run EXCEPT !.armed = FALSE]
    ELSE [run EXCEPT !.seq = 0]

\* Observer: run.displaced is the pending target that lost a dwell count
\* above zero to a request for another upgrade target, for as long as the
\* current state stays what it was and the target is not requested again.
DisplacedAfterRequest(t, target) ==
    IF t.current_state = None \/ target = t.current_state THEN run.displaced
    ELSE IF get_direction(t, target) = DOWNGRADE THEN None
    ELSE IF t.target_state = target THEN run.displaced
    ELSE IF t.target_state # None /\ t.cycles_at_target > 0
    THEN t.target_state
    ELSE IF run.displaced = target THEN None
    ELSE run.displaced

\* Observer: run.held is the number of ticks made since the pending target
\* became the pending target; a call that changes or clears the pending
\* target starts it again at 0.
HeldAfterRequest(t, new) ==
    IF new.target_state # t.target_state THEN 0 ELSE run.held

DwellRequest(target) ==
    LET r == request_transition(dwell_timer, target)
    IN  /\ dwell_timer' = r.timer
        /\ result' = r.ret
        /\ last' = [op |-> "request_transition", target |-> target,
                    pre |-> dwell_timer, displaced |-> run.displaced,
                    held |-> run.held]
        /\ run' = [SeqAfterRequest(dwell_timer, target) EXCEPT
                       !.displaced = IF r.timer.current_state
                                        # dwell_timer.current_state
                                     THEN None
                                     ELSE DisplacedAfterRequest(dwell_timer,
                                                                target),
                       !.held = HeldAfterRequest(dwell_timer, r.timer)]
        /\ UNCHANGED <<reflector, fallback_gate, etf_gate, current_cycle>>
        /\ UNCHANGED <<routerVars, codecVars, otherVars>>

DwellTick ==
    /\ dwell_timer.cycles_in_state < MaxDwellCycles
    /\ dwell_timer' = DwellTimer_tick(dwell_timer)
    /\ result' = None
    /\ last' = [op |-> "tick", target |-> None, pre |-> dwell_timer,
                displaced |-> run.displaced, held |-> run.held]
    /\ run' = [SeqAfterTick EXCEPT
                  !.held = IF dwell_timer.target_state # None THEN @ + 1
                           ELSE @]
    /\ UNCHANGED <<reflector, fallback_gate, etf_gate, current_cycle>>
    /\ UNCHANGED <<routerVars, codecVars, otherVars>>

InitDwell == TimerInit /\ RouterIdle /\ CodecIdle /\ OtherIdle

NextDwell ==
    \/ \E target \in ConsentState : DwellRequest(target)
    \/ DwellTick

SpecDwell == InitDwell /\ [][NextDwell]_vars

(***************************************************************************)
(* SpecDwellCalls: one DwellTimer, set_state, request_transition and tick   *)
(* in any order                                                             *)
(***************************************************************************)
DwellSetState(state) ==
    /\ dwell_timer' = set_state(dwell_timer, state)
    /\ result' = None
    /\ last' = [op |-> "set_state", target |-> state, pre |-> dwell_timer,
                displaced |-> run.displaced, held |-> run.held]
    /\ run' = [run EXCEPT !.seq = 0, !.armed = FALSE, !.displaced = None,
                          !.held = 0]
    /\ UNCHANGED <<reflector, fallback_gate, etf_gate, current_cycle>>
    /\ UNCHANGED <<routerVars, codecVars, otherVars>>

InitDwellCalls == TimerInit /\ RouterIdle /\ CodecIdle /\ OtherIdle

NextDwellCalls ==
    \/ \E state \in ConsentState : DwellSetState(state)
    \/ \E target \in ConsentState : DwellRequest(target)
    \/ DwellTick

SpecDwellCalls == InitDwellCalls /\ [][NextDwellCalls]_vars

(***************************************************************************)
(* SpecDwellCycle: one DwellTimer driven the way process_cycle drives it:   *)
(* in every cycle one request_transition, then one tick                     *)
(***************************************************************************)
\* Observer: run.streak is the number of consecutive cycles, ending with
\* the latest, in which run.target was the state requested.
DwellCycle(target) ==
    LET r == request_transition(dwell_timer, target)
    IN  /\ dwell_timer.cycles_in_state < MaxDwellCycles
        /\ dwell_timer' = DwellTimer_tick(r.timer)
        /\ result' = r.ret
        /\ last' = [op |-> "cycle", target |-> target, pre |-> dwell_timer]
        /\ run' = [run EXCEPT !.target = target,
                              !.streak = IF target = run.target THEN @ + 1
                                         ELSE 1]
        /\ UNCHANGED <<reflector, fallback_gate, etf_gate, current_cycle>>
        /\ UNCHANGED <<routerVars, codecVars, otherVars>>

InitDwellCycle == TimerInit /\ RouterIdle /\ CodecIdle /\ OtherIdle

NextDwellCycle == \E target \in ConsentState : DwellCycle(target)

SpecDwellCycle == InitDwellCycle /\ [][NextDwellCycle]_vars

(***************************************************************************)
(* SpecReflector: one ConsentReflector; detect in any order with ticks,     *)
(* every tick followed by the attempt to reflect                            *)
(***************************************************************************)
\* Observers: run.since is the number of ticks since the detected state
\* last changed, run.before the reflected state at that change, and
\* run.restarted says that the change arrived while an earlier one was
\* still waiting with ticks already counted.
ReflectorDetect(state) ==
    /\ reflector' = detect(reflector, state)
    /\ result' = state
    /\ last' = [op |-> "detect", arg |-> state]
    /\ run' = IF state # reflector.detected_state
              THEN [run EXCEPT !.since = 0,
                               !.before = reflector.reflected_state,
                               !.restarted =
                                   /\ reflector.pending_reflection
                                   /\ reflector.cycles_since_detection > 0]
              ELSE run
    /\ UNCHANGED <<dwell_timer, fallback_gate, etf_gate, current_cycle>>
    /\ UNCHANGED <<routerVars, codecVars, otherVars>>

ReflectorTick ==
    LET r == reflect(ConsentReflector_tick(reflector))
    IN  /\ reflector.detected_state # None
        /\ run.since < MaxReflectorTicks
        /\ reflector' = r.reflector
        /\ result' = r.ret
        /\ last' = [op |-> "tick", arg |-> None]
        /\ run' = [run EXCEPT !.since = @ + 1]
        /\ UNCHANGED <<dwell_timer, fallback_gate, etf_gate, current_cycle>>
        /\ UNCHANGED <<routerVars, codecVars, otherVars>>

InitReflector == TimerInit /\ RouterIdle /\ CodecIdle /\ OtherIdle

NextReflector ==
    \/ \E state \in ConsentState : ReflectorDetect(state)
    \/ ReflectorTick

SpecReflector == InitReflector /\ [][NextReflector]_vars

(***************************************************************************)
(* SpecGates: one FallbackGate and one ETFGate, update in any order         *)
(***************************************************************************)
\* coherence scores on both sides of the threshold, and the threshold
CoherenceInputs == {0, 136, 137, 138, 674}

\* Observers: run.below and run.emergency are the lengths of the runs of
\* consecutive below-threshold updates and of consecutive emergency updates
\* ending at the latest update of each gate.
FallbackUpdate(coherence) ==
    LET r == FallbackGate_update(fallback_gate, coherence)
    IN  /\ coherence < fallback_gate.threshold
            => fallback_gate.below_threshold_cycles < MaxGateCycles
        /\ fallback_gate' = r.gate
        /\ result' = r.ret
        /\ last' = [op |-> "fallback_update", arg |-> coherence]
        /\ run' = [run EXCEPT !.below =
                       IF coherence < FALLBACK_THRESHOLD THEN @ + 1 ELSE 0]
        /\ UNCHANGED <<dwell_timer, reflector, etf_gate, current_cycle>>
        /\ UNCHANGED <<routerVars, codecVars, otherVars>>

ETFUpdate(is_emergency) ==
    LET r == ETFGate_update(etf_gate, is_emergency)
    IN  /\ is_emergency => etf_gate.emergency_cycles < MaxGateCycles
        /\ etf_gate' = r.gate
        /\ result' = r.ret
        /\ last' = [op |-> "etf_update", arg |-> is_emergency]
        /\ run' = [run EXCEPT !.emergency = IF is_emergency THEN @ + 1 ELSE 0]
        /\ UNCHANGED <<dwell_timer, reflector, fallback_gate, current_cycle>>
        /\ UNCHANGED <<routerVars, codecVars, otherVars>>

InitGates == TimerInit /\ RouterIdle /\ CodecIdle /\ OtherIdle

NextGates ==
    \/ \E coherence \in CoherenceInputs : FallbackUpdate(coherence)
    \/ \E is_emergency \in BOOLEAN : ETFUpdate(is_emergency)

SpecGates == InitGates /\ [][NextGates]_vars

(***************************************************************************)
(* Spec: one TransitionManager, one process_cycle per tick                  *)
(***************************************************************************)
\* a coherence score below the fallback threshold and one above it
ManagerCoherence == {100, 500}

ProcessCycle(detected_state, coherence, is_emergency) ==
    LET r == process_cycle(Manager, detected_state, coherence, is_emergency)
    IN  /\ dwell_timer' = r.manager.dwell_timer
        /\ reflector' = r.manager.reflector
        /\ fallback_gate' = r.manager.fallback_gate
        /\ etf_gate' = r.manager.etf_gate
        /\ current_cycle' = r.manager.current_cycle
        /\ result' = r.ret
        /\ last' = [op |-> "process_cycle", detected_state |-> detected_state,
                    coherence |-> coherence, is_emergency |-> is_emergency,
                    pre_state |-> dwell_timer.current_state,
                    prev_op |-> last.op]
        /\ run' = run
        /\ UNCHANGED <<routerVars, codecVars, otherVars>>

Reset ==
    LET m == reset(Manager)
    IN  /\ dwell_timer' = m.dwell_timer
        /\ reflector' = m.reflector
        /\ fallback_gate' = m.fallback_gate
        /\ etf_gate' = m.etf_gate
        /\ current_cycle' = m.current_cycle
        /\ result' = None
        /\ last' = [op |-> "reset"]
        /\ run' = run
        /\ UNCHANGED <<routerVars, codecVars, otherVars>>

(***************************************************************************)
(* SpecFlicker: one TransitionManager with a coherence above the fallback   *)
(* threshold and no emergency, the detected state free in every tick        *)
(***************************************************************************)
\* Observer: run.lag counts the ticks, up to the latest one, in each of
\* which the state detected was less permissive than the reflected state
\* and the reflected state stayed what it was.
FlickerCycle(detected_state) ==
    LET r == process_cycle(Manager, detected_state, 500, FALSE)
    IN  /\ current_cycle < MaxFlickerCycle
        /\ dwell_timer' = r.manager.dwell_timer
        /\ reflector' = r.manager.reflector
        /\ fallback_gate' = r.manager.fallback_gate
        /\ etf_gate' = r.manager.etf_gate
        /\ current_cycle' = r.manager.current_cycle
        /\ result' = r.ret
        /\ last' = [op |-> "process_cycle", detected_state |-> detected_state,
                    coherence |-> 500, is_emergency |-> FALSE,
                    pre_state |-> dwell_timer.current_state,
                    prev_op |-> last.op]
        /\ run' = [run EXCEPT !.lag =
                      IF /\ reflector.reflected_state # None
                         /\ r.ret.detected_state > reflector.reflected_state
                         /\ r.manager.reflector.reflected_state
                               = reflector.reflected_state
                      THEN @ + 1 ELSE 0]
        /\ UNCHANGED <<routerVars, codecVars, otherVars>>

InitFlicker == TimerInit /\ RouterIdle /\ CodecIdle /\ OtherIdle

NextFlicker == \E detected_state \in ConsentState : FlickerCycle(detected_state)

SpecFlicker == InitFlicker /\ [][NextFlicker]_vars

Init == TimerInit /\ RouterIdle /\ CodecIdle /\ OtherIdle

Next ==
    \/ \E detected_state \in ConsentState, coherence \in ManagerCoherence,
          is_emergency \in BOOLEAN :
           /\ current_cycle < MaxCycle
           /\ ProcessCycle(detected_state, coherence, is_emergency)
    \/ Reset

Spec == Init /\ [][Next]_vars

(***************************************************************************)
(* SpecEmergency: one TransitionManager under a sustained emergency: the    *)
(* caller passes is_emergency = True on every tick, with any detected       *)
(* state and any coherence.                                                 *)
(***************************************************************************)
NextEmergency ==
    \E detected_state \in ConsentState, coherence \in ManagerCoherence :
        /\ current_cycle < MaxEmergencyCycle
        /\ ProcessCycle(detected_state, coherence, TRUE)

SpecEmergency == Init /\ [][NextEmergency]_vars

(***************************************************************************)
(* SpecReset: one TransitionManager that is ticked long enough for both     *)
(* gates to set their flags, and reset at any moment.  The reset records    *)
(* the gate flags it found.                                                 *)
(***************************************************************************)
ResetDetected == {FULL_CONSENT}

ResetCycle(detected_state, coherence, is_emergency) ==
    /\ current_cycle < MaxResetCycle
    /\ ProcessCycle(detected_state, coherence, is_emergency)

ResetCall ==
    LET m == reset(Manager)
    IN  /\ dwell_timer' = m.dwell_timer
        /\ reflector' = m.reflector
        /\ fallback_gate' = m.fallback_gate
        /\ etf_gate' = m.etf_gate
        /\ current_cycle' = m.current_cycle
        /\ result' = None
        /\ last' = [op |-> "reset",
                    fallback_triggered |-> fallback_gate.fallback_triggered,
                    etf_active |-> etf_gate.etf_active]
        /\ run' = run
        /\ UNCHANGED <<routerVars, codecVars, otherVars>>

NextReset ==
    \/ \E detected_state \in ResetDetected, coherence \in ManagerCoherence,
          is_emergency \in BOOLEAN :
           ResetCycle(detected_state, coherence, is_emergency)
    \/ ResetCall

SpecReset == Init /\ [][NextReset]_vars

(***************************************************************************)
(* rpp/sector_router.py: RoutableSector (IntEnum)                           *)
(***************************************************************************)
VOID == 0
CORE == 1
GENE == 2
MEMORY == 3
\* RoutableSector.WITNESS (WITNESS is a reserved word of TLA+)
WITNESS_SECTOR == 4
DREAM == 5
BRIDGE == 6
GUARDIAN == 7
SHADOW == 8

RoutableSector == {VOID, CORE, GENE, MEMORY, WITNESS_SECTOR, DREAM, BRIDGE,
                   GUARDIAN, SHADOW}

\* mutant: the EMERGENCY_OVERRIDE row is a copy of the SUSPENDED_CONSENT row
SECTOR_ACCESS_emergency_bridge ==
    [state \in ConsentState |->
        IF state = FULL_CONSENT
        THEN {VOID, CORE, GENE, MEMORY, WITNESS_SECTOR, DREAM, BRIDGE, GUARDIAN,
              SHADOW}
        ELSE IF state = ATTENTIVE THEN {MEMORY, WITNESS_SECTOR, BRIDGE, GUARDIAN}
        ELSE IF state = DIMINISHED_CONSENT THEN {BRIDGE, GUARDIAN, SHADOW}
        ELSE {BRIDGE, GUARDIAN}]

SECTOR_ACCESS ==
    [state \in ConsentState |->
        IF state = FULL_CONSENT
        THEN {VOID, CORE, GENE, MEMORY, WITNESS_SECTOR, DREAM, BRIDGE, GUARDIAN,
              SHADOW}
        ELSE IF state = ATTENTIVE THEN {MEMORY, WITNESS_SECTOR, BRIDGE, GUARDIAN}
        ELSE IF state = DIMINISHED_CONSENT THEN {BRIDGE, GUARDIAN, SHADOW}
        ELSE IF state = SUSPENDED_CONSENT THEN {BRIDGE, GUARDIAN}
        ELSE {GUARDIAN}]

\* mutant: the chain with BRIDGE first
FALLBACK_CHAIN_bridge_first == <<BRIDGE, GUARDIAN>>

FALLBACK_CHAIN == <<GUARDIAN, BRIDGE>>

\* default value of the coherence parameter of can_access_sector
DEFAULT_COHERENCE == 674

\* mutant: VOID is looked up in the table as well
can_access_sector_table_void(consent_state, sector, coherence) ==
    IF sector = GUARDIAN THEN TRUE
    ELSE IF consent_state \in DOMAIN SECTOR_ACCESS
    THEN /\ sector \in SECTOR_ACCESS[consent_state]
         /\ sector = VOID => coherence = 0
    ELSE FALSE

can_access_sector(consent_state, sector, coherence) ==
    IF sector = VOID THEN coherence = 0
    ELSE IF sector = GUARDIAN THEN TRUE
    ELSE IF consent_state \in DOMAIN SECTOR_ACCESS
    THEN sector \in SECTOR_ACCESS[consent_state]
    ELSE FALSE

get_accessible_sectors(consent_state) ==
    IF consent_state \in DOMAIN SECTOR_ACCESS
    THEN SECTOR_ACCESS[consent_state]
    ELSE {GUARDIAN}

\* the first entry of the chain that is in the set, GUARDIAN when none is
FirstAccessible(chain, accessible) ==
    LET hits == {i \in 1..Len(chain) : chain[i] \in accessible}
    IN  IF hits = {} THEN GUARDIAN
        ELSE chain[CHOOSE i \in hits : \A j \in hits : i <= j]

\* mutant: the direct-access test is made at coherence 0
get_fallback_sector_zero(consent_state, requested_sector) ==
    IF can_access_sector(consent_state, requested_sector, 0)
    THEN requested_sector
    ELSE FirstAccessible(FALLBACK_CHAIN,
                         get_accessible_sectors(consent_state))

get_fallback_sector(consent_state, requested_sector) ==
    IF can_access_sector(consent_state, requested_sector, DEFAULT_COHERENCE)
    THEN requested_sector
    ELSE FirstAccessible(FALLBACK_CHAIN,
                         get_accessible_sectors(consent_state))

\* mutant: a denial carries no sector
RoutingDecision_unset(granted, sector, original_sector, reason) ==
    [granted |-> granted, sector |-> IF granted THEN sector ELSE None,
     original_sector |-> original_sector, reason |-> reason]

RoutingDecision(granted, sector, original_sector, reason) ==
    [granted |-> granted, sector |-> sector,
     original_sector |-> original_sector, reason |-> reason]

was_redirected(d) == d.sector # d.original_sector

\* mutant: without fallback a denied request reports the fallback sector
route_redirecting(consent_state, requested_sector, coherence, allow_fallback) ==
    IF requested_sector = VOID
    THEN IF coherence = 0
         THEN RoutingDecision(TRUE, VOID, VOID,
                              "coherence=0 enables VOID access")
         ELSE RoutingDecision(allow_fallback,
                  get_fallback_sector(consent_state, requested_sector),
                  VOID, "VOID requires coherence=0, redirected")
    ELSE IF can_access_sector(consent_state, requested_sector, coherence)
    THEN RoutingDecision(TRUE, requested_sector, requested_sector,
                         "grants access")
    ELSE RoutingDecision(allow_fallback,
             get_fallback_sector(consent_state, requested_sector),
             requested_sector, "denies, redirected")

route_to_sector(consent_state, requested_sector, coherence, allow_fallback) ==
    IF requested_sector = VOID
    THEN IF coherence = 0
         THEN RoutingDecision(TRUE, VOID, VOID,
                              "coherence=0 enables VOID access")
         ELSE IF allow_fallback
         THEN RoutingDecision(TRUE,
                  get_fallback_sector(consent_state, requested_sector),
                  VOID, "VOID requires coherence=0, redirected")
         ELSE RoutingDecision(FALSE, requested_sector, requested_sector,
                              "VOID requires coherence=0")
    ELSE IF can_access_sector(consent_state, requested_sector, coherence)
    THEN RoutingDecision(TRUE, requested_sector, requested_sector,
                         "grants access")
    ELSE IF allow_fallback
    THEN RoutingDecision(TRUE,
             get_fallback_sector(consent_state, requested_sector),
             requested_sector, "denies, redirected")
    ELSE RoutingDecision(FALSE, requested_sector, requested_sector,
                         "denies access")

(***************************************************************************)
(* SpecRouter: route_to_sector and can_access_sector called with any        *)
(* arguments                                                                *)
(***************************************************************************)
\* coherence scores: 0 (VOID reachable), 1, a middle value and the maximum
RouterCoherence == {0, 1, 500, 674}

RouteToSector(consent_state, requested_sector, coherence, allow_fallback) ==
    /\ query' = [op |-> "route_to_sector", consent_state |-> consent_state,
                 requested_sector |-> requested_sector,
                 coherence |-> coherence, allow_fallback |-> allow_fallback]
    /\ decision' = route_to_sector(consent_state, requested_sector,
                                   coherence, allow_fallback)
    /\ UNCHANGED <<timerVars, codecVars, otherVars>>

CanAccessSector(consent_state, sector, coherence) ==
    /\ query' = [op |-> "can_access_sector", consent_state |-> consent_state,
                 sector |-> sector, coherence |-> coherence]
    /\ decision' = can_access_sector(consent_state, sector, coherence)
    /\ UNCHANGED <<timerVars, codecVars, otherVars>>

InitRouter == TimerInit /\ RouterIdle /\ CodecIdle /\ OtherIdle

NextRouter ==
    \/ \E consent_state \in ConsentState, requested_sector \in RoutableSector,
          coherence \in RouterCoherence, allow_fallback \in BOOLEAN :
           RouteToSector(consent_state, requested_sector, coherence,
                         allow_fallback)
    \/ \E consent_state \in ConsentState, sector \in RoutableSector,
          coherence \in RouterCoherence :
           CanAccessSector(consent_state, sector, coherence)

SpecRouter == InitRouter /\ [][NextRouter]_vars

(***************************************************************************)
(* SpecTotal: one TransitionManager and the router, which is handed the     *)
(* manager's current state; both are called with coherence values inside    *)
(* and outside 0..674                                                       *)
(***************************************************************************)
\* negative, zero, and above the maximum 674
TotalCoherence == {-1, 0, 675}

TotalRoute(requested_sector, coherence, allow_fallback) ==
    /\ dwell_timer.current_state # None
    /\ result' = route_to_sector(dwell_timer.current_state, requested_sector,
                                 coherence, allow_fallback)
    /\ last' = [op |-> "route_to_sector",
                consent_state |-> dwell_timer.current_state,
                requested_sector |-> requested_sector,
                coherence |-> coherence, allow_fallback |-> allow_fallback]
    /\ UNCHANGED <<dwell_timer, reflector, fallback_gate, etf_gate,
                   current_cycle, run>>
    /\ UNCHANGED <<routerVars, codecVars, otherVars>>

InitTotal == TimerInit /\ RouterIdle /\ CodecIdle /\ OtherIdle

NextTotal ==
    \/ \E detected_state \in ConsentState, coherence \in TotalCoherence,
          is_emergency \in BOOLEAN :
           /\ current_cycle < MaxTotalCycle
           /\ ProcessCycle(detected_state, coherence, is_emergency)
    \/ \E requested_sector \in RoutableSector, coherence \in TotalCoherence,
          allow_fallback \in BOOLEAN :
           TotalRoute(requested_sector, coherence, allow_fallback)

SpecTotal == InitTotal /\ [][NextTotal]_vars

(***************************************************************************)
(* SpecPair: two TransitionManagers ticked in any interleaving.  A manager  *)
(* holds references to the objects its constructor made (Dwell Timer,       *)
(* Reflector, Fallback Gate, Emergency Gate); the objects live in a heap.   *)
(***************************************************************************)
Sessions == {1, 2}

\* the objects a constructor call makes
NewParts ==
    [dwell_timer |-> DwellTimerInit, reflector |-> ConsentReflectorInit,
     fallback_gate |-> FallbackGateInit, etf_gate |-> ETFGateInit]

\* mutant: every manager refers to the objects of the first one
TransitionManager_init_shared(i) == [parts |-> 1, current_cycle |-> 0]

\* TransitionManager.__init__ of manager i: references to objects of its
\* own, and its own cycle count
TransitionManager_init(i) == [parts |-> i, current_cycle |-> 0]

\* manager i with its references followed
Resolve(i) ==
    LET parts == pair.heap[pair.managers[i].parts]
    IN  [dwell_timer |-> parts.dwell_timer, reflector |-> parts.reflector,
         fallback_gate |-> parts.fallback_gate, etf_gate |-> parts.etf_gate,
         current_cycle |-> pair.managers[i].current_cycle]

\* detected states and coherence scores the two sessions supply
PairStates == {FULL_CONSENT, SUSPENDED_CONSENT}

\* pair.alone[i] is manager i as it is when its own ticks are run on it
\* with no other manager present, pair.alone_result what its latest tick
\* returns there.
PairCycle(i, detected_state, coherence, is_emergency) ==
    LET r  == process_cycle(Resolve(i), detected_state, coherence,
                            is_emergency)
        ra == process_cycle(pair.alone[i], detected_state, coherence,
                            is_emergency)
    IN  /\ pair.managers[i].current_cycle < MaxPairCycle
        /\ pair' =
             [managers |-> [pair.managers EXCEPT
                               ![i].current_cycle = r.manager.current_cycle],
              heap |-> [pair.heap EXCEPT ![pair.managers[i].parts] =
                           [dwell_timer |-> r.manager.dwell_timer,
                            reflector |-> r.manager.reflector,
                            fallback_gate |-> r.manager.fallback_gate,
                            etf_gate |-> r.manager.etf_gate]],
              alone |-> [pair.alone EXCEPT ![i] = ra.manager],
              who |-> i, result |-> r.ret, alone_result |-> ra.ret]
        /\ UNCHANGED <<derived, coh, biofield, buffer, hnc, mesh, timerVars,
                       routerVars, codecVars>>

InitPair ==
    /\ TimerInit
    /\ RouterIdle
    /\ CodecIdle
    /\ derived = None
    /\ coh = None
    /\ biofield = None
    /\ buffer = None
    /\ hnc = None
    /\ mesh = None
    /\ pair = [managers |-> [i \in Sessions |-> TransitionManager_init(i)],
               heap |-> [i \in Sessions |-> NewParts],
               alone |-> [i \in Sessions |->
                             [dwell_timer |-> DwellTimerInit,
                              reflector |-> ConsentReflectorInit,
                              fallback_gate |-> FallbackGateInit,
                              etf_gate |-> ETFGateInit,
                              current_cycle |-> 0]],
               who |-> None, result |-> None, alone_result |-> None]

NextPair ==
    \E i \in Sessions, detected_state \in PairStates,
       coherence \in ManagerCoherence, is_emergency \in BOOLEAN :
        PairCycle(i, detected_state, coherence, is_emergency)

SpecPair == InitPair /\ [][NextPair]_vars

\* C24: under every interleaving of the ticks of two managers, each manager
\* is in the state, and its latest tick returned the result, that its own
\* sequence of ticks gives when run alone.
C24_ManagersIndependent ==
    /\ \A i \in Sessions : Resolve(i) = pair.alone[i]
    /\ pair.result = pair.alone_result

C24_Witness ==
    /\ pair.who = 1
    /\ pair.managers[1].current_cycle = MaxPairCycle
    /\ pair.managers[2].current_cycle = MaxPairCycle
    /\ Resolve(1).dwell_timer.current_state = FULL_CONSENT
    /\ Resolve(2).dwell_timer.current_state = SUSPENDED_CONSENT
    /\ Resolve(1).fallback_gate.below_threshold_cycles = MaxPairCycle
    /\ Resolve(2).fallback_gate.below_threshold_cycles = 0
    /\ pair.result.current_state = FULL_CONSENT

(***************************************************************************)
(* Integer helpers for the codec                                            *)
(***************************************************************************)
RECURSIVE BitXor(_, _)
\* Python's a ^ b for non-negative integers
BitXor(a, b) ==
    IF a = 0 THEN b
    ELSE IF b = 0 THEN a
    ELSE 2 * BitXor(a \div 2, b \div 2) + ((a + b) % 2)

\* Python's min(hi, max(lo, x))
Clamp(lo, hi, x) == IF x < lo THEN lo ELSE IF x > hi THEN hi ELSE x

\* Python's round(n / d): to the nearest integer, halves to the even one
RoundHalfEven(n, d) ==
    LET q == n \div d
        r == n % d
    IN  IF 2 * r < d THEN q
        ELSE IF 2 * r > d THEN q + 1
        ELSE IF q % 2 = 0 THEN q ELSE q + 1

RECURSIVE Pow256(_)
Pow256(n) == IF n = 0 THEN 1 ELSE 256 * Pow256(n - 1)

\* struct.pack('>I' / '>H', v): v as n big-endian bytes
Pack(v, n) == [i \in 1..n |-> (v \div Pow256(n - i)) % 256]

RECURSIVE Unpack(_)
\* struct.unpack('>I' / '>H', bytes)
Unpack(bytes) ==
    IF bytes = <<>> THEN 0
    ELSE 256 * Unpack(SubSeq(bytes, 1, Len(bytes) - 1)) + bytes[Len(bytes)]

(***************************************************************************)
(* rpp/address_canonical.py: RPPAddress                                     *)
(* An address is [theta, phi, omega, radius, reserved]; __post_init__       *)
(* keeps theta in 0..31, phi in 1..8, omega in 0..7, radius in [0.0, 1.0]   *)
(* and reserved in 0..8191.  The float radius is held as a count of         *)
(* RadiusUnits-ths (1.0 = RadiusUnits, 0.5 = 255, 1/255 = 2).               *)
(***************************************************************************)
RadiusUnits == 2 * 255

THETA_SHIFT == 27
PHI_SHIFT == 24
OMEGA_SHIFT == 21
RADIUS_SHIFT == 13
RESERVED_MASK == 8191

RECURSIVE Pow2(_)
Pow2(n) == IF n = 0 THEN 1 ELSE 2 * Pow2(n - 1)

\* A 32-bit value does not fit the model checker's integers, so it is held
\* as two halves, value = hi * 65536 + lo with lo in 0..65535 (hi is outside
\* 0..65535 exactly when the value is outside 0..2^32-1).
Word(hi, lo) == [hi |-> hi, lo |-> lo]

\* Python's w & 0xFFFFFFFF
Mask32(w) == Word(w.hi % Pow256(2), w.lo)

\* struct.pack('>I', w)
Pack32(w) == Pack(w.hi, 2) \o Pack(w.lo, 2)

\* struct.unpack('>I', bytes)
Unpack32(bytes) == Word(Unpack(SubSeq(bytes, 1, 2)), Unpack(SubSeq(bytes, 3, 4)))

\* bits 31..16 of the fields shifted into place are the hi half (the top 5
\* bits of the 8-bit radius among them), bits 15..0 the lo half
to_int(a) ==
    LET theta_enc    == (a.theta % 32) * Pow2(THETA_SHIFT - 16)
        phi_enc      == ((a.phi - 1) % 8) * Pow2(PHI_SHIFT - 16)
        omega_enc    == (a.omega % 8) * Pow2(OMEGA_SHIFT - 16)
        radius_bits  == RoundHalfEven(a.radius * 255, RadiusUnits) % 256
        reserved_enc == a.reserved % (RESERVED_MASK + 1)
    IN  Word(theta_enc + phi_enc + omega_enc
                 + radius_bits \div Pow2(16 - RADIUS_SHIFT),
             (radius_bits % Pow2(16 - RADIUS_SHIFT)) * Pow2(RADIUS_SHIFT)
                 + reserved_enc)

from_int(raw) ==
    [theta    |-> (raw.hi \div Pow2(THETA_SHIFT - 16)) % 32,
     phi      |-> ((raw.hi \div Pow2(PHI_SHIFT - 16)) % 8) + 1,
     omega    |-> (raw.hi \div Pow2(OMEGA_SHIFT - 16)) % 8,
     radius   |-> ((raw.hi % Pow2(OMEGA_SHIFT - 16)) * Pow2(16 - RADIUS_SHIFT)
                       + raw.lo \div Pow2(RADIUS_SHIFT))
                  * (RadiusUnits \div 255),
     reserved |-> raw.lo % (RESERVED_MASK + 1)]

RPPAddress_to_bytes(a) == Pack32(to_int(a))

RPPAddress_from_bytes(bytes) == from_int(Unpack32(bytes))

\* the Ra-valid ranges of theta, phi and omega
THETA_MIN == 1
THETA_MAX == 27
PHI_MIN == 1
PHI_MAX == 6
OMEGA_MIN == 0
OMEGA_MAX == 4

is_valid(a) ==
    /\ THETA_MIN <= a.theta /\ a.theta <= THETA_MAX
    /\ PHI_MIN <= a.phi /\ a.phi <= PHI_MAX
    /\ OMEGA_MIN <= a.omega /\ a.omega <= OMEGA_MAX

(***************************************************************************)
(* rpp/consent_header.py: constants, CRC-8                                  *)
(***************************************************************************)
HEADER_SIZE == 18
OFF_RPP_ADDRESS == 0
OFF_PACKET_ID == 4
OFF_ORIGIN_REF == 8
OFF_CONSENT == 10
OFF_ENTROPY == 11
OFF_TEMPORAL == 12
OFF_FALLBACK == 13
OFF_WINDOW_ID == 14
OFF_PHASE_REF == 16
OFF_CRC == 17

\* values of the PayloadType enumeration (0xC-0xF are reserved)
PayloadType == 0..11
\* values of the AncestralConsent enumeration
AncestralConsent == 0..3

\* one pass of the inner loop: shift left, XOR the polynomial in when the
\* top bit was set, keep 8 bits
crc8_shift(crc) ==
    IF (crc \div 128) % 2 = 1
    THEN BitXor(crc * 2, 7) % 256
    ELSE (crc * 2) % 256

RECURSIVE crc8_shifts(_, _)
crc8_shifts(crc, n) ==
    IF n = 0 THEN crc ELSE crc8_shifts(crc8_shift(crc), n - 1)

\* the inner loop (eight passes), tabulated over the value crc has after
\* crc ^= byte
crc8_inner == [crc \in 0..255 |-> crc8_shifts(crc, 8)]

RECURSIVE crc8_from(_, _, _)
\* the loop over the bytes, from byte i (1-based) on
crc8_from(crc, bytes, i) ==
    IF i > Len(bytes) THEN crc
    ELSE crc8_from(crc8_inner[BitXor(crc, bytes[i])], bytes, i + 1)

\* mutant: the loop stops one byte early
compute_crc8_short(bytes) ==
    crc8_from(0, SubSeq(bytes, 1, Len(bytes) - 1), 1)

compute_crc8(bytes) == crc8_from(0, bytes, 1)

(***************************************************************************)
(* rpp/consent_header.py: ConsentPacketHeader                               *)
(***************************************************************************)
\* rpp/ra_constants.py
PHI_THRESHOLD_4BIT == 10
ATTENTIVE_THRESHOLD_4BIT == 7
DIMINISHED_THRESHOLD_4BIT == 6

\* mutant: a weak verbal signal is enough for the boost
derive_consent_state_weak(consent_somatic_4bit, verbal_signal_strength) ==
    IF consent_somatic_4bit >= PHI_THRESHOLD_4BIT THEN FULL_CONSENT
    ELSE IF consent_somatic_4bit >= ATTENTIVE_THRESHOLD_4BIT THEN ATTENTIVE
    ELSE IF consent_somatic_4bit >= DIMINISHED_THRESHOLD_4BIT
    THEN IF verbal_signal_strength >= 1 THEN ATTENTIVE
         ELSE DIMINISHED_CONSENT
    ELSE SUSPENDED_CONSENT

\* the standalone function derive_consent_state
derive_consent_state(consent_somatic_4bit, verbal_signal_strength) ==
    IF consent_somatic_4bit >= PHI_THRESHOLD_4BIT THEN FULL_CONSENT
    ELSE IF consent_somatic_4bit >= ATTENTIVE_THRESHOLD_4BIT THEN ATTENTIVE
    ELSE IF consent_somatic_4bit >= DIMINISHED_THRESHOLD_4BIT
    THEN IF verbal_signal_strength >= 2 THEN ATTENTIVE
         ELSE DIMINISHED_CONSENT
    ELSE SUSPENDED_CONSENT

\* the method ConsentPacketHeader.derive_consent_state
Header_derive_consent_state(h) ==
    LET somatic == h.consent_somatic_4bit
        verbal  == h.verbal_signal_strength
    IN  IF somatic >= PHI_THRESHOLD_4BIT THEN FULL_CONSENT
        ELSE IF somatic >= ATTENTIVE_THRESHOLD_4BIT THEN ATTENTIVE
        ELSE IF somatic >= DIMINISHED_THRESHOLD_4BIT
        THEN IF verbal >= 2 THEN ATTENTIVE ELSE DIMINISHED_CONSENT
        ELSE SUSPENDED_CONSENT

\* errors.append(message) when the condition holds; a message is
\* represented by the name of its rule
AppendIf(errors, condition, rule) ==
    IF condition THEN Append(errors, rule) ELSE errors

\* mutant: the C1 rule also fires at the threshold
validate_inclusive(h) ==
    LET e1 == AppendIf(<<>>, ~is_valid(h.rpp_address), "V3")
        e2 == AppendIf(e1, /\ h.consent_somatic_4bit
                                 <= DIMINISHED_THRESHOLD_4BIT
                              /\ h.complecount_trace = 0, "C1")
        e3 == AppendIf(e2, ~(0 <= h.consent_somatic_4bit
                             /\ h.consent_somatic_4bit <= 15),
                       "consent_somatic_4bit")
        e4 == AppendIf(e3, ~(0 <= h.verbal_signal_strength
                             /\ h.verbal_signal_strength <= 3),
                       "verbal_signal_strength")
        e5 == AppendIf(e4, ~(0 <= h.phase_entropy_index
                             /\ h.phase_entropy_index <= 31),
                       "phase_entropy_index")
        e6 == AppendIf(e5, ~(0 <= h.complecount_trace
                             /\ h.complecount_trace <= 7),
                       "complecount_trace")
        e7 == AppendIf(e6, ~(0 <= h.fallback_vector
                             /\ h.fallback_vector <= 255),
                       "fallback_vector")
    IN  [valid |-> Len(e7) = 0, errors |-> e7]

\* validate: the pair (valid, errors) returned
validate(h) ==
    LET e1 == AppendIf(<<>>, ~is_valid(h.rpp_address), "V3")
        e2 == AppendIf(e1, /\ h.consent_somatic_4bit
                                 < DIMINISHED_THRESHOLD_4BIT
                              /\ h.complecount_trace = 0, "C1")
        e3 == AppendIf(e2, ~(0 <= h.consent_somatic_4bit
                             /\ h.consent_somatic_4bit <= 15),
                       "consent_somatic_4bit")
        e4 == AppendIf(e3, ~(0 <= h.verbal_signal_strength
                             /\ h.verbal_signal_strength <= 3),
                       "verbal_signal_strength")
        e5 == AppendIf(e4, ~(0 <= h.phase_entropy_index
                             /\ h.phase_entropy_index <= 31),
                       "phase_entropy_index")
        e6 == AppendIf(e5, ~(0 <= h.complecount_trace
                             /\ h.complecount_trace <= 7),
                       "complecount_trace")
        e7 == AppendIf(e6, ~(0 <= h.fallback_vector
                             /\ h.fallback_vector <= 255),
                       "fallback_vector")
    IN  [valid |-> Len(e7) = 0, errors |-> e7]

encode_consent_byte(h) ==
    LET verbal_bits    == (Clamp(0, 3, h.verbal_signal_strength) % 4) * 64
        somatic_bits   == (Clamp(0, 15, h.consent_somatic_4bit) % 16) * 4
        ancestral_bits == h.consent_ancestral % 4
    IN  verbal_bits + somatic_bits + ancestral_bits

encode_entropy_byte(h) ==
    (h.phase_entropy_index % 32) * 8 + (h.complecount_trace % 8)

encode_temporal_byte(h) ==
    (IF h.temporal_lock THEN 1 ELSE 0) * 128 + (h.payload_type % 16)

to_bytes(h) ==
    LET body == RPPAddress_to_bytes(h.rpp_address)
                \o Pack32(Mask32(h.packet_id))
                \o Pack(h.origin_ref % Pow256(2), 2)
                \o <<encode_consent_byte(h),
                     encode_entropy_byte(h),
                     encode_temporal_byte(h),
                     h.fallback_vector % 256>>
                \o Pack(h.coherence_window_id % Pow256(2), 2)
                \o <<h.target_phase_ref % 256>>
    IN  body \o <<compute_crc8(body)>>

\* bytes[lo:hi] of Python, on a 1-based sequence
Slice(bytes, lo, hi) == SubSeq(bytes, lo + 1, hi)

\* from_bytes: the header decoded, or the ValueError raised
from_bytes(bytes) ==
    IF Len(bytes) # HEADER_SIZE
    THEN [ok |-> FALSE, error |-> "Expected 18 bytes"]
    ELSE IF compute_crc8(Slice(bytes, 0, 17)) # bytes[OFF_CRC + 1]
    THEN [ok |-> FALSE, error |-> "CRC mismatch"]
    ELSE IF bytes[OFF_TEMPORAL + 1] % 16 \notin PayloadType
    THEN [ok |-> FALSE, error |-> "not a valid PayloadType"]
    ELSE [ok |-> TRUE,
          header |->
            [rpp_address |-> RPPAddress_from_bytes(
                                 Slice(bytes, OFF_RPP_ADDRESS,
                                       OFF_RPP_ADDRESS + 4)),
             packet_id |-> Unpack32(Slice(bytes, OFF_PACKET_ID,
                                          OFF_PACKET_ID + 4)),
             origin_ref |-> Unpack(Slice(bytes, OFF_ORIGIN_REF,
                                         OFF_ORIGIN_REF + 2)),
             verbal_signal_strength |-> (bytes[OFF_CONSENT + 1] \div 64) % 4,
             consent_somatic_4bit |-> (bytes[OFF_CONSENT + 1] \div 4) % 16,
             consent_ancestral |-> bytes[OFF_CONSENT + 1] % 4,
             temporal_lock |-> (bytes[OFF_TEMPORAL + 1] \div 128) % 2 = 1,
             phase_entropy_index |-> (bytes[OFF_ENTROPY + 1] \div 8) % 32,
             complecount_trace |-> bytes[OFF_ENTROPY + 1] % 8,
             payload_type |-> bytes[OFF_TEMPORAL + 1] % 16,
             fallback_vector |-> bytes[OFF_FALLBACK + 1],
             coherence_window_id |-> Unpack(Slice(bytes, OFF_WINDOW_ID,
                                                  OFF_WINDOW_ID + 2)),
             target_phase_ref |-> bytes[OFF_PHASE_REF + 1],
             crc |-> bytes[OFF_CRC + 1]]]

(***************************************************************************)
(* SpecCodec: a header is encoded, one bit of bytes 0-16 may be flipped on  *)
(* the wire, and the bytes are decoded                                      *)
(***************************************************************************)
\* ConsentPacketHeader(rpp_address=RPPAddress(1, 1, 0, 0.0)): the defaults
DefaultHeader ==
    [rpp_address |-> [theta |-> 1, phi |-> 1, omega |-> 0, radius |-> 0,
                      reserved |-> 0],
     packet_id |-> Word(0, 0), origin_ref |-> 0,
     verbal_signal_strength |-> 3, consent_somatic_4bit |-> 15,
     consent_ancestral |-> 0, temporal_lock |-> FALSE,
     phase_entropy_index |-> 0, complecount_trace |-> 0,
     payload_type |-> 0, fallback_vector |-> 0,
     coherence_window_id |-> 0, target_phase_ref |-> 0, crc |-> 0]

\* a header with every field at the top of its range
FullHeader ==
    [rpp_address |-> [theta |-> 31, phi |-> 8, omega |-> 7,
                      radius |-> RadiusUnits, reserved |-> 8191],
     packet_id |-> Word(65535, 65535), origin_ref |-> Pow256(2) - 1,
     verbal_signal_strength |-> 3, consent_somatic_4bit |-> 15,
     consent_ancestral |-> 3, temporal_lock |-> TRUE,
     phase_entropy_index |-> 31, complecount_trace |-> 7,
     payload_type |-> 11, fallback_vector |-> 255,
     coherence_window_id |-> Pow256(2) - 1, target_phase_ref |-> 255,
     crc |-> 0]

BaseHeaders == {DefaultHeader, FullHeader}

\* addresses: radius 0.5 (not a multiple of 1/255), 1/255 and 1.0
AddressInputs ==
    {[theta |-> 12, phi |-> 3, omega |-> 2, radius |-> 255, reserved |-> 0],
     [theta |-> 27, phi |-> 6, omega |-> 4, radius |-> 2, reserved |-> 4096],
     [theta |-> 0, phi |-> 1, omega |-> 0, radius |-> RadiusUnits,
      reserved |-> 1]}

\* the headers encoded: the base headers with one field changed, to values
\* inside its declared range and to values outside it
HeaderInputs ==
    BaseHeaders
    \cup {[b EXCEPT !.rpp_address = v] : b \in BaseHeaders, v \in AddressInputs}
    \cup {[b EXCEPT !.packet_id = v] :
            b \in BaseHeaders,
            v \in {Word(0, 1), Word(4660, 22136),   \* 1, 0x12345678
                   Word(65536, 0), Word(-1, 65535)} \* 2^32, -1
         }
    \cup {[b EXCEPT !.origin_ref = v] :
            b \in BaseHeaders, v \in {1, 4660, Pow256(2)}}
    \cup {[b EXCEPT !.verbal_signal_strength = v] :
            b \in BaseHeaders, v \in {0, 1, 2, 4, -1}}
    \cup {[b EXCEPT !.consent_somatic_4bit = v] :
            b \in BaseHeaders, v \in {0, 5, 6, 10, 16, -1}}
    \cup {[b EXCEPT !.consent_ancestral = v] : b \in BaseHeaders, v \in {1, 2}}
    \cup {[b EXCEPT !.phase_entropy_index = v] :
            b \in BaseHeaders, v \in {1, 26, 32, 33}}
    \cup {[b EXCEPT !.complecount_trace = v] :
            b \in BaseHeaders, v \in {1, 6, 8}}
    \cup {[b EXCEPT !.payload_type = v] : b \in BaseHeaders, v \in {1, 10}}
    \cup {[b EXCEPT !.fallback_vector = v] :
            b \in BaseHeaders, v \in {1, 170, 256}}
    \cup {[b EXCEPT !.coherence_window_id = v] :
            b \in BaseHeaders, v \in {1, 43981, Pow256(2) + 5}}
    \cup {[b EXCEPT !.target_phase_ref = v] :
            b \in BaseHeaders, v \in {1, 128, 300}}

\* every field value fits the width the header layout declares for it
InRange(h) ==
    /\ h.packet_id.hi \in 0..(Pow256(2) - 1)
    /\ h.origin_ref \in 0..(Pow256(2) - 1)
    /\ h.verbal_signal_strength \in 0..3
    /\ h.consent_somatic_4bit \in 0..15
    /\ h.consent_ancestral \in AncestralConsent
    /\ h.phase_entropy_index \in 0..31
    /\ h.complecount_trace \in 0..7
    /\ h.payload_type \in PayloadType
    /\ h.fallback_vector \in 0..255
    /\ h.coherence_window_id \in 0..(Pow256(2) - 1)
    /\ h.target_phase_ref \in 0..255

\* bytes with bit number bit (0 = least significant) of byte number byte
\* (0-based) inverted
FlipBit(bytes, byte, bit) ==
    [bytes EXCEPT ![byte + 1] = BitXor(@, Pow2(bit))]

ToBytes ==
    /\ stage = "new"
    /\ data' = to_bytes(header)
    /\ wire' = to_bytes(header)
    /\ stage' = "encoded"
    /\ UNCHANGED <<header, decoded, validation,
                 timerVars, routerVars, otherVars>>

Tamper(byte, bit) ==
    /\ stage = "encoded"
    /\ wire' = FlipBit(data, byte, bit)
    /\ stage' = "tampered"
    /\ UNCHANGED <<header, data, decoded, validation,
                 timerVars, routerVars, otherVars>>

FromBytes ==
    /\ stage \in {"encoded", "tampered", "forged"}
    /\ decoded' = from_bytes(wire)
    /\ stage' = "decoded"
    /\ UNCHANGED <<header, data, wire, validation,
                 timerVars, routerVars, otherVars>>

InitCodec ==
    /\ TimerInit
    /\ RouterIdle
    /\ OtherIdle
    /\ header \in HeaderInputs
    /\ data = <<>>
    /\ wire = <<>>
    /\ decoded = None
    /\ stage = "new"
    /\ validation = None

NextCodec ==
    \/ ToBytes
    \/ \E byte \in 0..(OFF_CRC - 1), bit \in 0..7 : Tamper(byte, bit)
    \/ FromBytes

SpecCodec == InitCodec /\ [][NextCodec]_vars

(***************************************************************************)
(* SpecDecode: from_bytes is handed 18-byte buffers that no to_bytes        *)
(* produced: an encoded header in which one byte of bytes 0-16 is replaced  *)
(* by any value and byte 17 is the CRC-8 of the bytes before it             *)
(***************************************************************************)
\* bytes with byte number byte (0-based) set to value and the CRC byte
\* recomputed
WithByte(bytes, byte, value) ==
    LET body == [Slice(bytes, 0, OFF_CRC) EXCEPT ![byte + 1] = value]
    IN  body \o <<compute_crc8(body)>>

Forge(byte, value) ==
    /\ stage = "encoded"
    /\ wire' = WithByte(data, byte, value)
    /\ stage' = "forged"
    /\ UNCHANGED <<header, data, decoded, validation,
                 timerVars, routerVars, otherVars>>

InitDecode ==
    /\ TimerInit
    /\ RouterIdle
    /\ OtherIdle
    /\ header \in BaseHeaders
    /\ data = <<>>
    /\ wire = <<>>
    /\ decoded = None
    /\ stage = "new"
    /\ validation = None

NextDecode ==
    \/ ToBytes
    \/ \E byte \in 0..(OFF_CRC - 1), value \in 0..255 : Forge(byte, value)
    \/ FromBytes

SpecDecode == InitDecode /\ [][NextDecode]_vars

(***************************************************************************)
(* SpecValidate: validate() called on headers built with any field values   *)
(***************************************************************************)
\* the headers validated: the defaults with the fields that validate reads
\* set to values inside and outside their ranges, on an address that is
\* Ra-valid and on one that is not (theta 0)
ValidateInputs ==
    {[DefaultHeader EXCEPT !.rpp_address.theta = theta,
                           !.consent_somatic_4bit = somatic,
                           !.complecount_trace = trace,
                           !.verbal_signal_strength = verbal,
                           !.fallback_vector = fallback] :
        theta \in {0, 1}, somatic \in {-1, 0, 3, 5, 6, 7, 15, 16},
        trace \in {-1, 0, 1, 7, 8}, verbal \in {0, 3, 4},
        fallback \in {0, 256}}

Validate ==
    /\ stage = "new"
    /\ validation' = validate(header)
    /\ stage' = "validated"
    /\ UNCHANGED <<header, data, wire, decoded,
                 timerVars, routerVars, otherVars>>

InitValidate ==
    /\ TimerInit
    /\ RouterIdle
    /\ OtherIdle
    /\ header \in ValidateInputs
    /\ data = <<>>
    /\ wire = <<>>
    /\ decoded = None
    /\ stage = "new"
    /\ validation = None

NextValidate == Validate

SpecValidate == InitValidate /\ [][NextValidate]_vars

(***************************************************************************)
(* Properties of the Dwell Timer (SpecDwell)                                *)
(***************************************************************************)
\* the last call was a request_transition made while a current state existed
Requested ==
    /\ last.op = "request_transition"
    /\ last.pre.current_state # None

\* the last call was the run.seq-th request for FULL_CONSENT of a
\* request/tick alternation that began at a timer settled in ATTENTIVE
FullRequestNo(k) ==
    /\ last.op = "request_transition"
    /\ run.armed
    /\ run.seq = k

\* C1 as stated: starting settled in ATTENTIVE and requesting FULL_CONSENT
\* once per tick, requests 1..18 are refused and request 19 is granted and
\* makes FULL_CONSENT the current state.
C1_GrantedOnTick19 ==
    /\ \A k \in 1..(DWELL_FULL - 1) : FullRequestNo(k) => result = FALSE
    /\ FullRequestNo(DWELL_FULL) =>
          result = TRUE /\ dwell_timer.current_state = FULL_CONSENT

\* C1 amended: the first request only starts the dwell count, so requests
\* 1..19 are refused (the current state stays ATTENTIVE) and request 20 is
\* granted, at which point the current state becomes FULL_CONSENT.
C1_GrantedOnTick20 ==
    /\ \A k \in 1..DWELL_FULL :
          FullRequestNo(k) =>
              result = FALSE /\ dwell_timer.current_state = ATTENTIVE
    /\ FullRequestNo(DWELL_FULL + 1) =>
          result = TRUE /\ dwell_timer.current_state = FULL_CONSENT

C1_Witness ==
    /\ FullRequestNo(DWELL_FULL + 1)
    /\ result = TRUE
    /\ dwell_timer.current_state = FULL_CONSENT

\* C2 as stated: from every current state, the first request for
\* SUSPENDED_CONSENT is granted at once and SUSPENDED_CONSENT is the current
\* state right after it.
C2_SuspendedGrantedAtOnce ==
    (/\ Requested
     /\ last.target = SUSPENDED_CONSENT
     /\ last.pre.target_state # SUSPENDED_CONSENT)
    => (result = TRUE /\ dwell_timer.current_state = SUSPENDED_CONSENT)

\* C3: a request whose target has a higher ordinal than the current state
\* is granted and the target is the current state right after the call,
\* whatever the residency count, pending target and pending dwell count.
C3_DowngradeImmediate ==
    (Requested /\ last.target > last.pre.current_state)
    => (result = TRUE /\ dwell_timer.current_state = last.target)

C3_Witness ==
    /\ Requested
    /\ last.target > last.pre.current_state
    /\ last.pre.target_state # None
    /\ last.pre.cycles_at_target > 0
    /\ last.pre.cycles_in_state > last.pre.cycles_at_target
    /\ dwell_timer.current_state = last.target

\* C31: after the first observation the current state changes to a more
\* permissive state only in a request for that state, made when the state
\* was the pending target and had been for at least 19 ticks
\* (FULL_CONSENT) or 3 ticks (ATTENTIVE, DIMINISHED_CONSENT); a tick never
\* changes the current state.
C31_NoUpgradeBeforeDwell ==
    (/\ last.op \in {"request_transition", "tick"}
     /\ last.pre.current_state # None
     /\ dwell_timer.current_state < last.pre.current_state)
    => /\ last.op = "request_transition"
       /\ last.target = dwell_timer.current_state
       /\ last.pre.target_state = dwell_timer.current_state
       /\ last.held >= (IF dwell_timer.current_state = FULL_CONSENT THEN 19
                         ELSE IF dwell_timer.current_state
                                    \in {ATTENTIVE, DIMINISHED_CONSENT}
                         THEN 3
                         ELSE 0)

C31_Witness ==
    /\ last.op = "request_transition"
    /\ last.pre.current_state = SUSPENDED_CONSENT
    /\ last.pre.target_state = ATTENTIVE
    /\ last.held = 3
    /\ result = TRUE
    /\ dwell_timer.current_state = ATTENTIVE

(***************************************************************************)
(* Properties of the Dwell Timer under all its calls (SpecDwellCalls)       *)
(***************************************************************************)
\* C35: after every call of set_state, request_transition and tick, and
\* before the first, a pending target is strictly more permissive than the
\* current state, and without a pending target the dwell count is 0.
C35_PendingTargetInvariant ==
    /\ dwell_timer.target_state # None
          => /\ dwell_timer.current_state # None
             /\ dwell_timer.target_state < dwell_timer.current_state
    /\ dwell_timer.target_state = None => dwell_timer.cycles_at_target = 0

C35_Witness ==
    /\ last.op = "set_state"
    /\ last.pre.target_state = FULL_CONSENT
    /\ last.pre.cycles_at_target > 0
    /\ last.target = FULL_CONSENT
    /\ dwell_timer.current_state = FULL_CONSENT
    /\ dwell_timer.target_state = None
    /\ dwell_timer.cycles_at_target = 0

(***************************************************************************)
(* Properties of the Dwell Timer driven once per cycle (SpecDwellCycle)     *)
(***************************************************************************)
\* the latest cycle requested a state more permissive than the current one
UpgradeCycle ==
    /\ last.op = "cycle"
    /\ last.pre.current_state # None
    /\ last.target < last.pre.current_state

\* C12 as stated: an upgrade is granted only when its target was the state
\* requested in each of the required number of cycles immediately before
\* the granting one (19 for FULL_CONSENT, 3 for ATTENTIVE and
\* DIMINISHED_CONSENT), and a cycle that requests any state other than the
\* pending target, the current state included, leaves no dwell progress
\* for that target.
C12_ContinuousRequest ==
    /\ (UpgradeCycle /\ result = TRUE)
          => run.streak - 1 >= get_required_dwell(last.target)
    /\ (/\ last.op = "cycle"
        /\ last.pre.target_state # None
        /\ last.target # last.pre.target_state)
          => ~(/\ dwell_timer.target_state = last.pre.target_state
               /\ dwell_timer.cycles_at_target > 0)

\* the last call was a request for an upgrade target that is not the
\* pending target
NewTargetRequested ==
    /\ Requested
    /\ last.target < last.pre.current_state
    /\ last.target # last.pre.target_state

\* C13: a request for an upgrade target other than the pending one is
\* refused, makes that target the pending one with a dwell count of zero
\* and leaves the current state alone; the timer keeps one pending target
\* only, so the count of the target it replaces is gone, and when that
\* earlier target is requested again its count starts at zero too.
C13_NewTargetStartsAtZero ==
    /\ NewTargetRequested
          => /\ result = FALSE
             /\ dwell_timer.target_state = last.target
             /\ dwell_timer.cycles_at_target = 0
             /\ dwell_timer.current_state = last.pre.current_state
    /\ (Requested /\ last.displaced # None /\ last.target = last.displaced)
          => /\ NewTargetRequested
             /\ dwell_timer.cycles_at_target = 0
    /\ run.displaced # None => dwell_timer.target_state # run.displaced

C13_Witness ==
    /\ Requested
    /\ last.displaced = FULL_CONSENT
    /\ last.target = FULL_CONSENT
    /\ last.pre.target_state = ATTENTIVE
    /\ last.pre.cycles_at_target > 0
    /\ dwell_timer.target_state = FULL_CONSENT
    /\ dwell_timer.cycles_at_target = 0
    /\ result = FALSE

(***************************************************************************)
(* Properties of the Reflector (SpecReflector)                              *)
(***************************************************************************)
\* C14: counting ticks from the latest change of the detected state, the
\* reflected state is still what it was at that change after ticks 1 to 3,
\* and is the detected state after tick 4 and after every later one; the
\* count starts again at every change of the detected state, also at one
\* that arrives before the 4th tick of the change before it.
C14_ReflectedOnFourthTick ==
    reflector.detected_state # None
    => /\ run.since < REFLECTION_DELAY
             => reflector.reflected_state = run.before
       /\ run.since >= REFLECTION_DELAY
             => reflector.reflected_state = reflector.detected_state
       /\ (last.op = "tick" /\ run.since = REFLECTION_DELAY)
             => result = reflector.detected_state
       /\ (last.op = "tick" /\ run.since # REFLECTION_DELAY)
             => result = None

C14_Witness ==
    /\ last.op = "tick"
    /\ run.restarted
    /\ run.since = REFLECTION_DELAY
    /\ run.before = ATTENTIVE
    /\ reflector.detected_state = FULL_CONSENT
    /\ reflector.reflected_state = FULL_CONSENT
    /\ result = FULL_CONSENT

(***************************************************************************)
(* Properties of the Transition Manager (SpecEmergency)                     *)
(***************************************************************************)
\* C4: in every tick at whose end the Emergency Gate is active, the detected
\* state and the dwell-gated current state reported for the tick are both
\* EMERGENCY_OVERRIDE, whatever the caller supplied and whether or not the
\* Fallback Gate triggered in that tick.
C4_EmergencyTakesPrecedence ==
    (last.op = "process_cycle" /\ etf_gate.etf_active)
    => /\ result.etf_active
       /\ result.detected_state = EMERGENCY_OVERRIDE
       /\ result.current_state = EMERGENCY_OVERRIDE
       /\ dwell_timer.current_state = EMERGENCY_OVERRIDE

C4_Witness ==
    /\ last.op = "process_cycle"
    /\ etf_gate.etf_active
    /\ result.fallback_triggered
    /\ last.detected_state = FULL_CONSENT
    /\ result.detected_state = EMERGENCY_OVERRIDE
    /\ result.current_state = EMERGENCY_OVERRIDE

(***************************************************************************)
(* Properties of the Transition Manager (Spec)                              *)
(***************************************************************************)
\* C15 as stated: the dict returned by every process_cycle carries the
\* reflected state the Reflector holds after that tick, the detected state,
\* the current state of the Dwell Timer, whether the request of that tick
\* was granted, and the flags the Fallback Gate and the Emergency Gate hold
\* after that tick.
C15_ResultReportsState ==
    last.op = "process_cycle"
    => /\ result.reflected_state = reflector.reflected_state
       /\ result.detected_state = reflector.detected_state
       /\ result.current_state = dwell_timer.current_state
       /\ result.transition_allowed \in BOOLEAN
       /\ result.fallback_triggered = fallback_gate.fallback_triggered
       /\ result.etf_active = etf_gate.etf_active

\* C32 as stated: after any sequence of ticks, when the reflected state and
\* the current state are both set, the reflected state is not more
\* permissive than the current state.
C32_ReflectedWithinCurrent ==
    (reflector.reflected_state # None /\ dwell_timer.current_state # None)
    => reflector.reflected_state >= dwell_timer.current_state

\* C33 as stated: when in each of 4 consecutive ticks the detected state
\* was less permissive than the reflected state, the reflected state has
\* changed by the end of the 4th of them.
C33_ReflectedFollowsWithin4 == run.lag < 4

\* C36: right after reset() the manager equals a freshly created one (cycle
\* count 0, current and reflected state unset, both gate counters 0, both
\* gate flags cleared), and the tick that follows a reset returns what the
\* same tick returns on a new manager and leaves the same manager behind.
\* process_cycle is a function of the manager and its arguments, so equal
\* managers give equal results for every later sequence of ticks.
C36_ResetIsFresh ==
    /\ last.op = "reset" =>
          /\ Manager = TransitionManager_new
          /\ current_cycle = 0
          /\ dwell_timer.current_state = None
          /\ reflector.reflected_state = None
          /\ fallback_gate.below_threshold_cycles = 0
          /\ etf_gate.emergency_cycles = 0
          /\ ~fallback_gate.fallback_triggered
          /\ ~etf_gate.etf_active
    /\ (last.op = "process_cycle" /\ last.prev_op = "reset") =>
          LET r == process_cycle(TransitionManager_new, last.detected_state,
                                 last.coherence, last.is_emergency)
          IN  result = r.ret /\ Manager = r.manager

\* a reset of a manager whose two gates had both set their flags
C36_Witness ==
    /\ last.op = "reset"
    /\ last.fallback_triggered
    /\ last.etf_active

\* C22: a manager that is new or was just reset has a Dwell Timer with no
\* current state, and the state requested in its first tick, FULL_CONSENT
\* included, is granted and is the current state at the end of that tick.
C22_FirstTargetImmediate ==
    /\ last.op \in {"none", "reset"}
          => /\ dwell_timer = DwellTimerInit
             /\ current_cycle = 0
    /\ (last.op = "process_cycle" /\ last.prev_op \in {"none", "reset"})
          => last.pre_state = None
    /\ (last.op = "process_cycle" /\ last.pre_state = None)
          => /\ result.transition_allowed = TRUE
             /\ result.detected_state = last.detected_state
             /\ result.current_state = last.detected_state
             /\ dwell_timer.current_state = last.detected_state

C22_Witness ==
    /\ last.op = "process_cycle"
    /\ last.prev_op = "reset"
    /\ last.pre_state = None
    /\ last.detected_state = FULL_CONSENT
    /\ result.transition_allowed = TRUE
    /\ dwell_timer.current_state = FULL_CONSENT

(***************************************************************************)
(* Properties of the Transition Manager and the router (SpecTotal)          *)
(***************************************************************************)
\* C23: whatever the consent state, the coherence (negative and above 674
\* included), the emergency flag, the sector and the fallback setting, and
\* whatever state the manager is in, process_cycle returns a dict whose
\* every entry has a value of its kind, and route_to_sector returns a
\* decision that grants some sector or denies the requested one.
C23_DefinedResults ==
    /\ last.op = "process_cycle"
          => /\ result.cycle = current_cycle
             /\ result.detected_state \in ConsentState
             /\ result.current_state \in ConsentState
             /\ result.reflected_state \in ConsentState \cup {None}
             /\ result.transition_allowed \in BOOLEAN
             /\ result.fallback_triggered \in BOOLEAN
             /\ result.etf_active \in BOOLEAN
             /\ result.dwell_cycles \in 1..current_cycle
    /\ last.op = "route_to_sector"
          => /\ last.consent_state \in ConsentState
             /\ result.granted \in BOOLEAN
             /\ result.sector \in RoutableSector
             /\ result.original_sector = last.requested_sector
             /\ ~result.granted => result.sector = last.requested_sector

C23_Witness ==
    /\ last.op = "route_to_sector"
    /\ last.coherence < 0
    /\ last.requested_sector = VOID
    /\ ~last.allow_fallback
    /\ ~result.granted
    /\ last.consent_state = EMERGENCY_OVERRIDE
    /\ current_cycle = MaxTotalCycle
    /\ fallback_gate.below_threshold_cycles = MaxTotalCycle

(***************************************************************************)
(* Properties of the Fallback Gate (SpecGates)                              *)
(***************************************************************************)
\* C10: the triggered flag is set exactly when the run of consecutive
\* below-threshold updates ending at the latest update is longer than 12,
\* and an update at or above the threshold leaves the count 0 and the flag
\* cleared.
C10_FallbackAfterKhat ==
    /\ fallback_gate.fallback_triggered <=> run.below > KHAT_DURATION
    /\ fallback_gate.below_threshold_cycles = run.below
    /\ (last.op = "fallback_update" /\ last.arg >= FALLBACK_THRESHOLD)
          => /\ fallback_gate.below_threshold_cycles = 0
             /\ ~fallback_gate.fallback_triggered
             /\ result = FALSE
    /\ (last.op = "fallback_update" /\ last.arg < FALLBACK_THRESHOLD)
          => (result = TRUE <=> run.below > KHAT_DURATION)

C10_Witness ==
    /\ last.op = "fallback_update"
    /\ run.below = KHAT_DURATION + 2
    /\ fallback_gate.fallback_triggered
    /\ result = TRUE

\* C11: the lockdown flag of the Emergency Gate is set exactly when the run
\* of consecutive emergency updates ending at the latest update is at least
\* 9 (not set after 8, set by the 9th), and an update without the emergency
\* condition leaves the flag cleared and the count 0.
C11_LockdownAtETF ==
    /\ etf_gate.etf_active <=> run.emergency >= ETF_DURATION
    /\ etf_gate.emergency_cycles = run.emergency
    /\ run.emergency = ETF_DURATION - 1 => ~etf_gate.etf_active
    /\ run.emergency = ETF_DURATION => etf_gate.etf_active
    /\ (last.op = "etf_update" /\ ~last.arg)
          => /\ etf_gate.emergency_cycles = 0
             /\ ~etf_gate.etf_active
             /\ result = FALSE
    /\ (last.op = "etf_update" /\ last.arg)
          => (result = TRUE <=> run.emergency >= ETF_DURATION)

C11_Witness ==
    /\ last.op = "etf_update"
    /\ last.arg
    /\ run.emergency = ETF_DURATION
    /\ etf_gate.etf_active
    /\ result = TRUE

(***************************************************************************)
(* Properties of the Sector Router (SpecRouter)                             *)
(***************************************************************************)
Routed == query.op = "route_to_sector"

\* C5 as stated: in EMERGENCY_OVERRIDE every granted decision names
\* GUARDIAN, and can_access is false for every sector other than GUARDIAN,
\* for every requested sector, coherence and fallback setting.
C5_EmergencyGuardianOnly ==
    (Routed /\ query.consent_state = EMERGENCY_OVERRIDE)
    => /\ decision.granted => decision.sector = GUARDIAN
       /\ \A sector \in RoutableSector \ {GUARDIAN} :
             ~can_access_sector(EMERGENCY_OVERRIDE, sector, query.coherence)

\* C5 amended: in EMERGENCY_OVERRIDE the only sectors that can be reached
\* are GUARDIAN and, at coherence 0 only, VOID: a granted decision names
\* GUARDIAN, or VOID when VOID was requested at coherence 0; can_access is
\* false for every sector other than GUARDIAN and VOID, and for VOID it is
\* true exactly at coherence 0.
C5_EmergencyGuardianOrVoid ==
    (Routed /\ query.consent_state = EMERGENCY_OVERRIDE)
    => /\ decision.granted =>
             \/ decision.sector = GUARDIAN
             \/ /\ decision.sector = VOID
                /\ query.requested_sector = VOID
                /\ query.coherence = 0
       /\ \A sector \in RoutableSector \ {GUARDIAN, VOID} :
             ~can_access_sector(EMERGENCY_OVERRIDE, sector, query.coherence)
       /\ can_access_sector(EMERGENCY_OVERRIDE, VOID, query.coherence)
             <=> query.coherence = 0

C5_Witness ==
    /\ Routed
    /\ query.consent_state = EMERGENCY_OVERRIDE
    /\ query.requested_sector = BRIDGE
    /\ query.coherence = 0
    /\ decision.granted
    /\ decision.sector = GUARDIAN

\* C6: every granted routing decision names a sector that the given consent
\* state may reach at the given coherence.
C6_GrantedIsAccessible ==
    (Routed /\ decision.granted)
    => can_access_sector(query.consent_state, decision.sector,
                         query.coherence)

C6_Witness ==
    /\ Routed
    /\ decision.granted
    /\ was_redirected(decision)
    /\ query.requested_sector = VOID
    /\ query.coherence # 0
    /\ query.consent_state # FULL_CONSENT

\* the last call was can_access_sector
AccessAsked == query.op = "can_access_sector"

\* C16: can_access_sector for VOID is true exactly at coherence 0, for
\* every consent state, and for GUARDIAN it is true for every consent state
\* and every coherence.
C16_VoidAndGuardian ==
    /\ (AccessAsked /\ query.sector = VOID)
          => (decision = TRUE <=> query.coherence = 0)
    /\ (AccessAsked /\ query.sector = GUARDIAN) => decision = TRUE

C16_Witness ==
    /\ AccessAsked
    /\ query.sector = VOID
    /\ query.consent_state = EMERGENCY_OVERRIDE
    /\ query.coherence = 0
    /\ decision = TRUE

\* C34: a routing decision that redirects (it was made by the fallback, or
\* its sector is not the requested one) has GUARDIAN as its sector, for
\* every consent state, requested sector and coherence; BRIDGE, although
\* accessible in the state, is not chosen.
C34_RedirectsToGuardian ==
    (/\ Routed
     /\ \/ was_redirected(decision)
        \/ decision.reason \in {"VOID requires coherence=0, redirected",
                                "denies, redirected"})
    => /\ decision.granted
       /\ query.allow_fallback
       /\ decision.sector = GUARDIAN
       /\ decision.sector # BRIDGE
       /\ decision.original_sector = query.requested_sector

C34_Witness ==
    /\ Routed
    /\ query.consent_state = SUSPENDED_CONSENT
    /\ query.requested_sector = CORE
    /\ BRIDGE \in get_accessible_sectors(query.consent_state)
    /\ decision.reason = "denies, redirected"
    /\ decision.sector = GUARDIAN

\* C17: route_to_sector grants exactly when fallback is allowed or the
\* requested sector is accessible at the given state and coherence, and a
\* denial names the requested sector as both the sector and the original
\* sector (no redirect).
C17_GrantedIffFallbackOrAccess ==
    Routed
    => /\ decision.granted <=>
             \/ query.allow_fallback
             \/ can_access_sector(query.consent_state,
                                  query.requested_sector, query.coherence)
       /\ ~decision.granted
             => /\ decision.sector = query.requested_sector
                /\ decision.original_sector = query.requested_sector
                /\ ~was_redirected(decision)

C17_Witness ==
    /\ Routed
    /\ ~query.allow_fallback
    /\ query.consent_state = ATTENTIVE
    /\ query.requested_sector = CORE
    /\ ~decision.granted
    /\ decision.sector = CORE

\* C18 as stated: a sector that a consent state can reach at some coherence
\* can be reached at that coherence by every more permissive consent state
\* (every state of lower ordinal).
C18_AccessMonotone ==
    (AccessAsked /\ decision = TRUE)
    => \A state \in ConsentState :
          state < query.consent_state
          => can_access_sector(state, query.sector, query.coherence)

(***************************************************************************)
(* Properties of the Consent Header Codec (SpecCodec)                       *)
(***************************************************************************)
\* the bytes decoded are the bytes encode returned
Untampered == wire = data

\* C7 as stated: for every header whose fields are within their declared
\* ranges, decoding the encoded bytes yields a header equal to the original,
\* and encode always returns exactly 18 bytes.
C7_RoundTrip ==
    /\ stage # "new" => Len(data) = HEADER_SIZE
    /\ (stage = "decoded" /\ Untampered /\ InRange(header))
          => (decoded.ok /\ decoded.header = header)

\* C8: flipping one bit of bytes 0-16 changes the CRC-8 over those bytes,
\* and the buffer, which carried a correct CRC, then fails to decode with a
\* checksum error.
C8_SingleBitDetected ==
    /\ stage # "new" =>
          data[OFF_CRC + 1] = compute_crc8(Slice(data, 0, OFF_CRC))
    /\ (stage \in {"tampered", "decoded"} /\ ~Untampered)
          => compute_crc8(Slice(wire, 0, OFF_CRC))
                 # compute_crc8(Slice(data, 0, OFF_CRC))
    /\ (stage = "decoded" /\ ~Untampered)
          => (~decoded.ok /\ decoded.error = "CRC mismatch")

C8_Witness ==
    /\ stage = "decoded"
    /\ ~Untampered
    /\ wire[OFF_PHASE_REF + 1] # data[OFF_PHASE_REF + 1]
    /\ ~decoded.ok
    /\ decoded.error = "CRC mismatch"

(***************************************************************************)
(* SpecDerive: the consent state derived from a header's somatic and verbal *)
(* values, by the standalone function and by the header method              *)
(***************************************************************************)
\* every somatic value of 4 bits with every verbal value of 2 bits
DeriveInputs ==
    {[DefaultHeader EXCEPT !.consent_somatic_4bit = somatic,
                           !.verbal_signal_strength = verbal] :
        somatic \in 0..15, verbal \in 0..3}

DeriveFunction ==
    /\ stage = "new"
    /\ derived' = [by |-> "function",
                   state |-> derive_consent_state(
                                 header.consent_somatic_4bit,
                                 header.verbal_signal_strength)]
    /\ stage' = "derived"
    /\ UNCHANGED <<header, data, wire, decoded, validation, pair, coh,
                   biofield, buffer, hnc, mesh, timerVars, routerVars>>

DeriveMethod ==
    /\ stage = "new"
    /\ derived' = [by |-> "method",
                   state |-> Header_derive_consent_state(header)]
    /\ stage' = "derived"
    /\ UNCHANGED <<header, data, wire, decoded, validation, pair, coh,
                   biofield, buffer, hnc, mesh, timerVars, routerVars>>

InitDerive ==
    /\ TimerInit
    /\ RouterIdle
    /\ derived = None
    /\ pair = None
    /\ coh = None
    /\ biofield = None
    /\ buffer = None
    /\ hnc = None
    /\ mesh = None
    /\ header \in DeriveInputs
    /\ data = <<>>
    /\ wire = <<>>
    /\ decoded = None
    /\ stage = "new"
    /\ validation = None

NextDerive == DeriveFunction \/ DeriveMethod

SpecDerive == InitDerive /\ [][NextDerive]_vars

\* the state the derivation rules give for a somatic and a verbal value
DerivationTable(somatic, verbal) ==
    IF somatic >= 10 THEN FULL_CONSENT
    ELSE IF somatic \in 7..9 THEN ATTENTIVE
    ELSE IF somatic = 6 /\ verbal >= 2 THEN ATTENTIVE
    ELSE IF somatic = 6 THEN DIMINISHED_CONSENT
    ELSE SUSPENDED_CONSENT

\* C21: for somatic 0..15 and verbal 0..3 the derived state is FULL_CONSENT
\* from somatic 10, ATTENTIVE for somatic 7..9 and for somatic 6 with verbal
\* at least 2, DIMINISHED_CONSENT for somatic 6 with verbal below 2 and
\* SUSPENDED_CONSENT below 6; the function and the method agree.
C21_DerivationTable ==
    stage = "derived"
    => /\ derived.state = DerivationTable(header.consent_somatic_4bit,
                                          header.verbal_signal_strength)
       /\ derive_consent_state(header.consent_somatic_4bit,
                               header.verbal_signal_strength)
             = Header_derive_consent_state(header)

C21_Witness ==
    /\ stage = "derived"
    /\ derived.by = "function"
    /\ header.consent_somatic_4bit = 6
    /\ header.verbal_signal_strength = 2
    /\ derived.state = ATTENTIVE

(***************************************************************************)
(* rpp/coherence.py.  An input level is a float; the model holds it as the *)
(* number of 1/UnitScale steps it is made of.  UnitScale is a power of two, *)
(* so every product and quotient below is exact in binary floating point   *)
(* and int() of it is the integer quotient.                                 *)
(***************************************************************************)
\* SpecCoherence: the steps 0.0 to 1.0 is divided in
UnitScale == 64
\* SpecCoherence: how many steps below 0.0 and above 1.0 the inputs reach
InputMargin == 8

GREEN_PHI_SCALED == 165
ANKH_SCALED == 509
MAX_COHERENCE == 674
ALPHA_INV_SCALED == 137

\* Python's int(n / d): truncation towards zero
IntTrunc(n, d) == IF n >= 0 THEN n \div d ELSE -((-n) \div d)

\* min(1.0, x) alone: a level below 0.0 is kept
clamp_unit_above(x) == IF x > UnitScale THEN UnitScale ELSE x

\* max(0.0, min(1.0, x)), of a level in steps
clamp_unit(x) == IF x > UnitScale THEN UnitScale ELSE IF x < 0 THEN 0 ELSE x

\* the score without the clamp to 0..MAX_COHERENCE: the sum wraps around
compute_coherence_score_wrap(engagement, completion) ==
    LET engagement_component ==
            IntTrunc(GREEN_PHI_SCALED * clamp_unit(engagement), UnitScale)
        completion_component ==
            IntTrunc(ANKH_SCALED * clamp_unit(completion), UnitScale)
    IN  (engagement_component + completion_component) % MAX_COHERENCE

compute_coherence_score(engagement, completion) ==
    LET engagement_component ==
            IntTrunc(GREEN_PHI_SCALED * clamp_unit(engagement), UnitScale)
        completion_component ==
            IntTrunc(ANKH_SCALED * clamp_unit(completion), UnitScale)
        score == engagement_component + completion_component
    IN  Clamp(0, MAX_COHERENCE, score)

\* binding coefficient >= BINDING_THRESHOLD: both are a quotient by
\* MAX_COHERENCE, so the comparison is the one of the numerators
is_binding_valid(score) ==
    IF score <= 0 THEN FALSE
    ELSE IF score >= MAX_COHERENCE THEN TRUE
    ELSE score >= ALPHA_INV_SCALED

compute_complecount(score) ==
    IF score <= 0 THEN 0
    ELSE Clamp(0, 7, IntTrunc(score * 7, MAX_COHERENCE))

compute_coherence(engagement, completion) ==
    LET score == compute_coherence_score(engagement, completion)
        complecount == compute_complecount(score)
    IN  [score |-> score,
         complecount |-> complecount,
         state |-> complecount,
         is_binding_valid |-> is_binding_valid(score),
         completion_flag |-> (complecount = 7),
         engagement_weight |->
             IntTrunc(GREEN_PHI_SCALED * clamp_unit(engagement), UnitScale),
         completion_weight |->
             IntTrunc(ANKH_SCALED * clamp_unit(completion), UnitScale)]

\* the levels inside [0.0, 1.0], and the ones the scenario passes
UnitLevels == 0..UnitScale
CoherenceLevels == (0 - InputMargin)..(UnitScale + InputMargin)

ComputeCoherence ==
    /\ ~coh.returned
    /\ coh' = [coh EXCEPT
                  !.result = compute_coherence(coh.engagement, coh.completion),
                  !.returned = TRUE]
    /\ UNCHANGED <<derived, pair, biofield, buffer, hnc, mesh, timerVars,
                   routerVars, codecVars>>

InitCoherence ==
    /\ TimerInit
    /\ RouterIdle
    /\ CodecIdle
    /\ derived = None
    /\ pair = None
    /\ biofield = None
    /\ buffer = None
    /\ hnc = None
    /\ mesh = None
    /\ coh \in [engagement : CoherenceLevels, completion : CoherenceLevels,
                result : {None}, returned : {FALSE}]

NextCoherence == ComputeCoherence

SpecCoherence == InitCoherence /\ [][NextCoherence]_vars

\* C25: for inputs between 0.0 and 1.0 the score does not decrease when
\* either input is raised and the other is kept; both inputs at 1.0 give
\* 674 and both at 0.0 give 0.
C25_ScoreMonotone ==
    (coh.returned /\ coh.engagement \in UnitLevels
                  /\ coh.completion \in UnitLevels)
    => /\ \A higher \in UnitLevels :
             higher >= coh.engagement
             => compute_coherence_score(higher, coh.completion)
                    >= coh.result.score
       /\ \A higher \in UnitLevels :
             higher >= coh.completion
             => compute_coherence_score(coh.engagement, higher)
                    >= coh.result.score
       /\ (coh.engagement = UnitScale /\ coh.completion = UnitScale)
             => coh.result.score = 674
       /\ (coh.engagement = 0 /\ coh.completion = 0)
             => coh.result.score = 0

C25_Witness ==
    /\ coh.returned
    /\ coh.engagement = UnitScale
    /\ coh.completion = UnitScale
    /\ coh.result.score = 674
    /\ coh.result.completion_flag

\* C26: every pair of inputs gets a result; an input below 0.0 gives what
\* 0.0 gives and one above 1.0 what 1.0 gives; the score is within 0..674
\* and the completion count within 0..7.
C26_InputsClamped ==
    coh.returned
    => /\ coh.result = compute_coherence(
                           Clamp(0, UnitScale, coh.engagement),
                           Clamp(0, UnitScale, coh.completion))
       /\ coh.result.score \in 0..674
       /\ coh.result.complecount \in 0..7

C26_Witness ==
    /\ coh.returned
    /\ coh.engagement < 0
    /\ coh.completion > UnitScale
    /\ coh.result.score = 509
    /\ coh.result.complecount = 5

(***************************************************************************)
(* rpp/biofield.py: BindingStatus (IntEnum) and BiofieldBinding.  Of the   *)
(* list of BindingEvents the model keeps the last one.  The scenario calls *)
(* update_coherence, attempt_resync, dephase and tick; force_bind,          *)
(* force_unbind and reset ("for testing/emergency") are not part of it.     *)
(***************************************************************************)
\* SpecBiofield: tick() is not called on a BINDING binding once it has
\* counted this many binding cycles
MaxBindingCycles == 2

UNBOUND == 0
BINDING == 1
BOUND == 2
DEPHASING == 3
DEPHASED == 4

\* binding_coefficient >= BINDING_THRESHOLD: coherence / 674 >= 137 / 674
BiofieldBinding_is_bound(b) == b.coherence >= ALPHA_INV_SCALED

BiofieldBinding_is_recoverable(b) ==
    IF b.status = DEPHASED THEN FALSE
    ELSE IF b.status # DEPHASING THEN TRUE
    ELSE b.dephased_cycles <= KHAT_DURATION

BiofieldBinding_record_event(b, from_status, to_status) ==
    [b EXCEPT !.last_event = <<from_status, to_status, b.coherence>>]

\* _update_status with a DEPHASED binding bound again at once
update_status_rebound(b) ==
    LET new ==
          IF BiofieldBinding_is_bound(b)
          THEN IF b.status \in {UNBOUND, BINDING, DEPHASING, DEPHASED}
               THEN [b EXCEPT !.status = BOUND, !.dephased_cycles = 0]
               ELSE b
          ELSE IF b.status = BOUND
               THEN [b EXCEPT !.status = DEPHASING, !.dephased_cycles = 0]
               ELSE IF b.status = BINDING
               THEN [b EXCEPT !.status = UNBOUND, !.binding_cycles = 0]
               ELSE b
    IN  IF b.status # new.status
        THEN BiofieldBinding_record_event(new, b.status, new.status)
        ELSE new

BiofieldBinding_update_status(b) ==
    LET new ==
          IF BiofieldBinding_is_bound(b)
          THEN IF b.status \in {UNBOUND, BINDING}
               THEN [b EXCEPT !.status = BOUND, !.dephased_cycles = 0]
               ELSE IF b.status = DEPHASING
               THEN [b EXCEPT !.status = BOUND, !.dephased_cycles = 0]
               ELSE IF b.status = DEPHASED
               THEN [b EXCEPT !.status = BINDING, !.binding_cycles = 0]
               ELSE b
          ELSE IF b.status = BOUND
               THEN [b EXCEPT !.status = DEPHASING, !.dephased_cycles = 0]
               ELSE IF b.status = BINDING
               THEN [b EXCEPT !.status = UNBOUND, !.binding_cycles = 0]
               ELSE b
    IN  IF b.status # new.status
        THEN BiofieldBinding_record_event(new, b.status, new.status)
        ELSE new

BiofieldBinding_init(initial_coherence) ==
    BiofieldBinding_update_status(
        [coherence |-> Clamp(0, MAX_COHERENCE, initial_coherence),
         status |-> UNBOUND,
         dephased_cycles |-> 0,
         binding_cycles |-> 0,
         last_event |-> <<>>])

\* the binding after the call, and what the call returned
BiofieldBinding_update_coherence(b, coherence) ==
    LET new == BiofieldBinding_update_status(
                   [b EXCEPT !.coherence = Clamp(0, MAX_COHERENCE, coherence)])
    IN  [binding |-> new, ret |-> new.status]

\* tick with the full dephase at KHAT_DURATION cycles, not past it
BiofieldBinding_tick_early(b) ==
    IF b.status = DEPHASING
    THEN LET counted == [b EXCEPT !.dephased_cycles = @ + 1]
         IN  IF counted.dephased_cycles >= KHAT_DURATION
             THEN [binding |-> BiofieldBinding_record_event(
                                   [counted EXCEPT !.status = DEPHASED],
                                   b.status, DEPHASED),
                   ret |-> FALSE]
             ELSE [binding |-> counted, ret |-> TRUE]
    ELSE IF b.status = BINDING
    THEN [binding |-> [b EXCEPT !.binding_cycles = @ + 1], ret |-> TRUE]
    ELSE [binding |-> b, ret |-> TRUE]

BiofieldBinding_tick(b) ==
    IF b.status = DEPHASING
    THEN LET counted == [b EXCEPT !.dephased_cycles = @ + 1]
         IN  IF counted.dephased_cycles > KHAT_DURATION
             THEN [binding |-> BiofieldBinding_record_event(
                                   [counted EXCEPT !.status = DEPHASED],
                                   b.status, DEPHASED),
                   ret |-> FALSE]
             ELSE [binding |-> counted, ret |-> TRUE]
    ELSE IF b.status = BINDING
    THEN [binding |-> [b EXCEPT !.binding_cycles = @ + 1], ret |-> TRUE]
    ELSE [binding |-> b, ret |-> TRUE]

BiofieldBinding_dephase(b) ==
    LET new == IF b.status = BOUND
               THEN BiofieldBinding_record_event(
                        [b EXCEPT !.status = DEPHASING,
                                  !.dephased_cycles = 0],
                        b.status, DEPHASING)
               ELSE b
    IN  [binding |-> new, ret |-> BiofieldBinding_is_recoverable(new)]

BiofieldBinding_attempt_resync(b, coherence) ==
    LET r == BiofieldBinding_update_coherence(b, coherence)
    IN  [binding |-> r.binding, ret |-> BiofieldBinding_is_bound(r.binding)]

\* the coherence scores the scenario passes: below 0, just below and at the
\* binding threshold, above MAX_COHERENCE
BiofieldCoherence == {-1, 136, 137, 675}

BiofieldUpdates == {"update_coherence", "attempt_resync"}

\* the call made, with the observers: the binding before the call, the
\* ticks since the binding last started DEPHASING, whether it has been
\* DEPHASED, and the updates at or above the threshold since it last was
\* (counted up to 2)
BiofieldCall(op, r) ==
    LET old == biofield.binding
        new == r.binding
    IN  biofield' =
          [binding |-> new, op |-> op, ret |-> r.ret, prev |-> old,
           since |-> IF new.status = DEPHASING /\ old.status # DEPHASING
                     THEN 0
                     ELSE IF op = "tick" /\ old.status = DEPHASING
                     THEN biofield.since + 1
                     ELSE biofield.since,
           fell |-> (biofield.fell \/ new.status = DEPHASED),
           resyncs |-> IF new.status = DEPHASED THEN 0
                       ELSE IF op \in BiofieldUpdates
                               /\ BiofieldBinding_is_bound(new)
                               /\ biofield.resyncs < 2
                       THEN biofield.resyncs + 1
                       ELSE biofield.resyncs]

BiofieldIdle ==
    UNCHANGED <<derived, pair, coh, buffer, hnc, mesh, timerVars, routerVars,
                codecVars>>

BiofieldUpdate(coherence) ==
    /\ BiofieldCall("update_coherence",
                    BiofieldBinding_update_coherence(biofield.binding,
                                                     coherence))
    /\ BiofieldIdle

BiofieldResync(coherence) ==
    /\ BiofieldCall("attempt_resync",
                    BiofieldBinding_attempt_resync(biofield.binding,
                                                   coherence))
    /\ BiofieldIdle

BiofieldDephase ==
    /\ BiofieldCall("dephase", BiofieldBinding_dephase(biofield.binding))
    /\ BiofieldIdle

BiofieldTick ==
    /\ biofield.binding.status = BINDING
          => biofield.binding.binding_cycles < MaxBindingCycles
    /\ BiofieldCall("tick", BiofieldBinding_tick(biofield.binding))
    /\ BiofieldIdle

InitBiofield ==
    /\ TimerInit
    /\ RouterIdle
    /\ CodecIdle
    /\ derived = None
    /\ pair = None
    /\ coh = None
    /\ buffer = None
    /\ hnc = None
    /\ mesh = None
    /\ \E initial_coherence \in BiofieldCoherence :
          biofield = [binding |-> BiofieldBinding_init(initial_coherence),
                      op |-> "init", ret |-> None,
                      prev |-> BiofieldBinding_init(initial_coherence),
                      since |-> 0, fell |-> FALSE, resyncs |-> 0]

NextBiofield ==
    \/ \E coherence \in BiofieldCoherence : BiofieldUpdate(coherence)
    \/ \E coherence \in BiofieldCoherence : BiofieldResync(coherence)
    \/ BiofieldDephase
    \/ BiofieldTick

SpecBiofield == InitBiofield /\ [][NextBiofield]_vars

\* C27: a binding that has started DEPHASING has counted at most 12 ticks
\* since and is recoverable; a tick of a DEPHASING binding keeps it
\* DEPHASING up to the 12th and makes it DEPHASED, no longer recoverable, on
\* the 13th; any other call leaves it DEPHASING unless it is an update with
\* a coherence at or above the binding threshold.
C27_DephaseWindow ==
    LET b == biofield.binding
        p == biofield.prev
    IN  /\ b.status = DEPHASING
              => /\ biofield.since <= 12
                 /\ BiofieldBinding_is_recoverable(b)
                 /\ p.status # DEPHASING => p.status = BOUND
        /\ (p.status = DEPHASING /\ biofield.op = "tick")
              => IF biofield.since <= 12
                 THEN b.status = DEPHASING /\ biofield.ret = TRUE
                 ELSE /\ biofield.since = 13
                      /\ b.status = DEPHASED
                      /\ ~BiofieldBinding_is_recoverable(b)
                      /\ biofield.ret = FALSE
        /\ (p.status = DEPHASING /\ biofield.op # "tick")
              => IF biofield.op \in BiofieldUpdates
                    /\ BiofieldBinding_is_bound(b)
                 THEN b.status = BOUND
                 ELSE b.status = DEPHASING

C27_Witness ==
    /\ biofield.op = "tick"
    /\ biofield.prev.status = DEPHASING
    /\ biofield.since = 13
    /\ biofield.binding.status = DEPHASED
    /\ biofield.binding.coherence = 136

\* C28: an update with a coherence at or above the binding threshold makes
\* a DEPHASING binding BOUND with a dephase count of 0 and a DEPHASED
\* binding BINDING; no call makes a DEPHASED binding BOUND, and a binding
\* that has been DEPHASED is BOUND only after two such updates.
C28_RebindInTwoSteps ==
    LET b == biofield.binding
        p == biofield.prev
    IN  /\ (biofield.op \in BiofieldUpdates /\ BiofieldBinding_is_bound(b))
              => /\ p.status = DEPHASING
                       => b.status = BOUND /\ b.dephased_cycles = 0
                 /\ p.status = DEPHASED => b.status = BINDING
        /\ (p.status = DEPHASED /\ biofield.op # "init")
              => b.status \in {DEPHASED, BINDING}
        /\ (biofield.fell /\ b.status = BOUND) => biofield.resyncs >= 2

C28_Witness ==
    /\ biofield.fell
    /\ biofield.op = "attempt_resync"
    /\ biofield.prev.status = BINDING
    /\ biofield.binding.status = BOUND
    /\ biofield.resyncs = 2

(***************************************************************************)
(* SpecBiofieldForced: the calls of SpecBiofield and, at any moment,        *)
(* force_bind(), force_unbind() and reset()                                 *)
(***************************************************************************)
\* mutant: the status is forced, the coherence is left as it is
force_bind_keep_coherence(b) ==
    LET new == [b EXCEPT !.status = BOUND, !.dephased_cycles = 0]
    IN  IF b.status # new.status
        THEN BiofieldBinding_record_event(new, b.status, new.status)
        ELSE new

\* BiofieldBinding.force_bind: int(BINDING_THRESHOLD * MAX_COHERENCE) + 1,
\* with BINDING_THRESHOLD = 137 / 674, is 138
force_bind(b) ==
    LET new == [b EXCEPT !.coherence = ALPHA_INV_SCALED + 1,
                         !.status = BOUND,
                         !.dephased_cycles = 0]
    IN  IF b.status # new.status
        THEN BiofieldBinding_record_event(new, b.status, new.status)
        ELSE new

force_unbind(b) ==
    LET new == [b EXCEPT !.coherence = 0,
                         !.status = UNBOUND,
                         !.dephased_cycles = 0,
                         !.binding_cycles = 0]
    IN  IF b.status # new.status
        THEN BiofieldBinding_record_event(new, b.status, new.status)
        ELSE new

\* BiofieldBinding.reset: the events are cleared
BiofieldBinding_reset(b) ==
    [coherence |-> 0, status |-> UNBOUND, dephased_cycles |-> 0,
     binding_cycles |-> 0, last_event |-> <<>>]

BiofieldForceBind ==
    /\ BiofieldCall("force_bind",
                    [binding |-> force_bind(biofield.binding), ret |-> None])
    /\ BiofieldIdle

BiofieldForceUnbind ==
    /\ BiofieldCall("force_unbind",
                    [binding |-> force_unbind(biofield.binding),
                     ret |-> None])
    /\ BiofieldIdle

BiofieldReset ==
    /\ BiofieldCall("reset",
                    [binding |-> BiofieldBinding_reset(biofield.binding),
                     ret |-> None])
    /\ BiofieldIdle

NextBiofieldForced ==
    \/ \E coherence \in BiofieldCoherence : BiofieldUpdate(coherence)
    \/ \E coherence \in BiofieldCoherence : BiofieldResync(coherence)
    \/ BiofieldDephase
    \/ BiofieldTick
    \/ BiofieldForceBind
    \/ BiofieldForceUnbind
    \/ BiofieldReset

SpecBiofieldForced == InitBiofield /\ [][NextBiofieldForced]_vars

\* C40: after any sequence of coherence updates, ticks, dephase, resync,
\* force_bind, force_unbind and reset, a BOUND binding has a coherence of
\* at least 137 and an UNBOUND binding has a coherence below 137.
C40_StatusMatchesCoherence ==
    /\ biofield.binding.status = BOUND
          => biofield.binding.coherence >= ALPHA_INV_SCALED
    /\ biofield.binding.status = UNBOUND
          => biofield.binding.coherence < ALPHA_INV_SCALED

\* force_bind() on a binding that was DEPHASED below the threshold
C40_Witness ==
    /\ biofield.op = "force_bind"
    /\ biofield.prev.status = DEPHASED
    /\ biofield.prev.coherence < ALPHA_INV_SCALED
    /\ biofield.binding.status = BOUND
    /\ biofield.binding.coherence = ALPHA_INV_SCALED + 1

(***************************************************************************)
(* rpp/pma.py: PMABuffer.  An Optional[PMARecord] is a sequence of no or   *)
(* one record; of a PMARecord the model keeps window_id and timestamp (the *)
(* number of the write that stored it); the dict _index is a function on   *)
(* the window IDs it has as keys.                                           *)
(***************************************************************************)
\* SpecBuffer: the capacity of the buffer (PMABuffer accepts 8 to 4096)
BufferCapacity == 8
\* SpecBuffer: write() is not called once this many records are written
\* beyond the capacity
MaxOverwrites == 3

PMABuffer_init(capacity) ==
    [capacity |-> capacity,
     slots |-> [pos \in 0..(capacity - 1) |-> <<>>],
     write_ptr |-> 0,
     count |-> 0,
     index |-> <<>>]

\* the dict without the key
Del(index, key) == [k \in (DOMAIN index) \ {key} |-> index[k]]

\* the dict with index[key] = value
Put(index, key, value) ==
    [k \in (DOMAIN index) \cup {key} |-> IF k = key THEN value ELSE index[k]]

\* write that leaves the overwritten record's window ID in the index
PMABuffer_write_keep_index(b, record) ==
    LET pos == b.write_ptr
        old_record == b.slots[pos]
    IN  [b EXCEPT !.count = IF old_record = <<>> THEN @ + 1 ELSE @,
                  !.slots[pos] = <<record>>,
                  !.index = Put(b.index, record.window_id, pos),
                  !.write_ptr = (b.write_ptr + 1) % b.capacity]

PMABuffer_write(b, record) ==
    LET pos == b.write_ptr
        old_record == b.slots[pos]
        removed == IF old_record # <<>>
                      /\ old_record[1].window_id \in DOMAIN b.index
                   THEN Del(b.index, old_record[1].window_id)
                   ELSE b.index
    IN  [b EXCEPT !.count = IF old_record = <<>> THEN @ + 1 ELSE @,
                  !.slots[pos] = <<record>>,
                  !.index = Put(removed, record.window_id, pos),
                  !.write_ptr = (b.write_ptr + 1) % b.capacity]

PMABuffer_get(b, window_id) ==
    IF window_id \notin DOMAIN b.index THEN <<>>
    ELSE b.slots[b.index[window_id]]

\* the window IDs written so far
WrittenIds == {buffer.written[i].window_id : i \in 1..Len(buffer.written)}

\* the window IDs the next write may carry: one of the next two unused
\* ones, or, once in a run, one that was written before
NextWindowIds ==
    LET top == IF buffer.written = <<>> THEN 0
               ELSE CHOOSE n \in WrittenIds : \A m \in WrittenIds : m <= n
    IN  {top + 1, top + 2} \cup (IF buffer.distinct THEN WrittenIds ELSE {})

\* a write; the observers are the records written, oldest first, and
\* whether their window IDs are all distinct
BufferWrite(window_id) ==
    LET record == [window_id |-> window_id,
                   timestamp |-> Len(buffer.written) + 1]
    IN  /\ Len(buffer.written) < buffer.pma.capacity + MaxOverwrites
        /\ buffer' = [pma |-> PMABuffer_write(buffer.pma, record),
                      ret |-> buffer.pma.write_ptr,
                      written |-> Append(buffer.written, record),
                      distinct |-> (buffer.distinct
                                    /\ window_id \notin WrittenIds)]
        /\ UNCHANGED <<derived, pair, coh, biofield, hnc, mesh, timerVars,
                       routerVars, codecVars>>

InitBuffer ==
    /\ TimerInit
    /\ RouterIdle
    /\ CodecIdle
    /\ derived = None
    /\ pair = None
    /\ coh = None
    /\ biofield = None
    /\ hnc = None
    /\ mesh = None
    /\ buffer = [pma |-> PMABuffer_init(BufferCapacity), ret |-> None,
                 written |-> <<>>, distinct |-> TRUE]

NextBuffer == \E window_id \in NextWindowIds : BufferWrite(window_id)

SpecBuffer == InitBuffer /\ [][NextBuffer]_vars

\* C29: after more writes than the capacity, all with distinct window IDs,
\* count is the capacity, get returns each of the last capacity records for
\* its window ID, and get returns nothing for the window ID of an older
\* record.
C29_HoldsMostRecent ==
    LET n == Len(buffer.written)
        capacity == buffer.pma.capacity
    IN  (buffer.distinct /\ n > capacity)
        => /\ buffer.pma.count = capacity
           /\ \A i \in 1..n :
                 PMABuffer_get(buffer.pma, buffer.written[i].window_id)
                    = IF i > n - capacity THEN <<buffer.written[i]>>
                      ELSE <<>>

C29_Witness ==
    /\ buffer.distinct
    /\ Len(buffer.written) = buffer.pma.capacity + 3
    /\ buffer.pma.count = buffer.pma.capacity
    /\ buffer.pma.write_ptr = 3
    /\ buffer.ret = 2
    /\ PMABuffer_get(buffer.pma, buffer.written[3].window_id) = <<>>
    /\ PMABuffer_get(buffer.pma, buffer.written[4].window_id)
          = <<buffer.written[4]>>

\* the records the buffer holds that carry the window ID
HeldWith(b, window_id) ==
    {b.slots[pos][1] : pos \in {q \in DOMAIN b.slots :
                                   /\ b.slots[q] # <<>>
                                   /\ b.slots[q][1].window_id = window_id}}

\* C37: for every window ID written, get returns the most recently written
\* record with that ID when the buffer still holds a record with that ID,
\* and returns nothing only when the buffer holds none, including when the
\* same window ID was written more than once.
C37_GetReturnsLatestHeld ==
    \A window_id \in WrittenIds :
        LET held == HeldWith(buffer.pma, window_id)
        IN  PMABuffer_get(buffer.pma, window_id)
               = IF held = {} THEN <<>>
                 ELSE <<CHOOSE r \in held :
                           \A o \in held : o.timestamp <= r.timestamp>>

(***************************************************************************)
(* rpp/hnc.py: FragmentStatus (IntEnum), FragmentState, HarmonicNexusCore. *)
(* A priority is a whole number (0.0, 1.0); the float master coherence is  *)
(* held as the pair of the weighted sum and the total weight it is the     *)
(* quotient of; timestamps are left out.                                    *)
(***************************************************************************)
\* SpecHnc: the calls that recalculate the master values are not made once
\* the sync generation has reached this
MaxSyncGeneration == 3

ACTIVE == 0
IDLE == 1
SYNCING == 2
Fragment_DEPHASED == 3
OFFLINE == 4

FragmentStatus == {ACTIVE, IDLE, SYNCING, Fragment_DEPHASED, OFFLINE}

\* FragmentState(...) after __post_init__
FragmentState(fragment_id, priority, coherence, status) ==
    [fragment_id |-> fragment_id,
     coherence |-> Clamp(0, MAX_COHERENCE, coherence),
     priority |-> Clamp(0, 2, priority),
     status |-> status,
     complecount |-> 0,
     phase_memory_ref |-> 0]

FragmentState_is_bound(f) == f.coherence >= ALPHA_INV_SCALED

FragmentState_is_complete(f) == f.complecount = 7

HarmonicNexusCore_init ==
    [fragments |-> <<>>,
     master_coherence |-> <<0, 1>>,
     master_complecount |-> 0,
     completion_flag |-> FALSE,
     sync_generation |-> 0]

\* the keys of the fragments that are ACTIVE
active_fragments(h) ==
    {id \in DOMAIN h.fragments : h.fragments[id].status = ACTIVE}

\* sum(f.priority for f in the fragments with these keys)
RECURSIVE SumPriority(_, _)
SumPriority(h, ids) ==
    IF ids = {} THEN 0
    ELSE LET id == CHOOSE x \in ids : TRUE
         IN  h.fragments[id].priority + SumPriority(h, ids \ {id})

\* sum(f.coherence * f.priority for f in the fragments with these keys)
RECURSIVE SumWeighted(_, _)
SumWeighted(h, ids) ==
    IF ids = {} THEN 0
    ELSE LET id == CHOOSE x \in ids : TRUE
         IN  h.fragments[id].coherence * h.fragments[id].priority
                + SumWeighted(h, ids \ {id})

\* min(f.complecount for f in the fragments with these keys)
MinComplecount(h, ids) ==
    CHOOSE n \in {h.fragments[id].complecount : id \in ids} :
        \A id \in ids : n <= h.fragments[id].complecount

HarmonicNexusCore_recalculate_master(h) ==
    LET active == active_fragments(h)
        total_weight == SumPriority(h, active)
    IN  IF active = {}
        THEN [h EXCEPT !.master_coherence = <<0, 1>>,
                       !.master_complecount = 0,
                       !.completion_flag = FALSE]
        ELSE IF total_weight > 0
        THEN [h EXCEPT
                !.master_coherence =
                    <<SumWeighted(h, active), total_weight>>,
                !.master_complecount = MinComplecount(h, active),
                !.completion_flag =
                    (\A id \in active :
                        FragmentState_is_complete(h.fragments[id])),
                !.sync_generation = @ + 1]
        ELSE [h EXCEPT !.master_coherence = <<0, 1>>,
                       !.master_complecount = 0,
                       !.completion_flag = FALSE,
                       !.sync_generation = @ + 1]

\* the core after the call, and what the call returned (register_fragment
\* returns the FragmentState it stored: TRUE stands for it)
register_fragment(h, fragment_id, priority, initial_coherence) ==
    LET state == FragmentState(fragment_id, priority, initial_coherence,
                               ACTIVE)
    IN  [core |-> HarmonicNexusCore_recalculate_master(
                      [h EXCEPT !.fragments =
                                    Put(h.fragments, fragment_id, state)]),
         ret |-> TRUE]

unregister_fragment(h, fragment_id) ==
    IF fragment_id \in DOMAIN h.fragments
    THEN [core |-> HarmonicNexusCore_recalculate_master(
                       [h EXCEPT !.fragments = Del(h.fragments, fragment_id)]),
          ret |-> TRUE]
    ELSE [core |-> h, ret |-> FALSE]

update_fragment_coherence(h, fragment_id, coherence, complecount) ==
    IF fragment_id \notin DOMAIN h.fragments
    THEN [core |-> h, ret |-> FALSE]
    ELSE LET measured ==
                 [h.fragments[fragment_id] EXCEPT
                     !.coherence = Clamp(0, MAX_COHERENCE, coherence),
                     !.complecount = Clamp(0, 7, complecount)]
             fragment ==
                 [measured EXCEPT
                     !.status = IF FragmentState_is_bound(measured)
                                THEN ACTIVE ELSE Fragment_DEPHASED]
         IN  [core |-> HarmonicNexusCore_recalculate_master(
                           [h EXCEPT !.fragments[fragment_id] = fragment]),
              ret |-> TRUE]

set_fragment_status(h, fragment_id, status) ==
    IF fragment_id \notin DOMAIN h.fragments
    THEN [core |-> h, ret |-> FALSE]
    ELSE [core |-> [h EXCEPT !.fragments[fragment_id].status = status],
          ret |-> TRUE]

sync_phase_memory(h, fragment_id, phase_memory_ref) ==
    IF fragment_id \notin DOMAIN h.fragments
    THEN [core |-> h, ret |-> FALSE]
    ELSE [core |-> [h EXCEPT
                      !.fragments[fragment_id].phase_memory_ref =
                          phase_memory_ref,
                      !.fragments[fragment_id].status = SYNCING],
          ret |-> TRUE]

complete_sync(h, fragment_id) ==
    IF fragment_id \notin DOMAIN h.fragments
    THEN [core |-> h, ret |-> FALSE]
    ELSE [core |-> [h EXCEPT !.fragments[fragment_id].status = ACTIVE],
          ret |-> TRUE]

\* the arguments the scenario passes
FragmentIds == {"frag1", "frag2"}
FragmentPriorities == {0, 1}
FragmentCoherence == {136, 137}
FragmentComplecounts == {3, 7}
PhaseMemoryRefs == {1}

HncCall(op, r) == hnc' = [core |-> r.core, op |-> op, ret |-> r.ret]

HncIdle ==
    UNCHANGED <<derived, pair, coh, biofield, buffer, mesh, timerVars,
                routerVars, codecVars>>

HncRegister(fragment_id, priority, initial_coherence) ==
    /\ hnc.core.sync_generation < MaxSyncGeneration
    /\ HncCall("register_fragment",
               register_fragment(hnc.core, fragment_id, priority,
                                 initial_coherence))
    /\ HncIdle

HncUnregister(fragment_id) ==
    /\ hnc.core.sync_generation < MaxSyncGeneration
    /\ HncCall("unregister_fragment",
               unregister_fragment(hnc.core, fragment_id))
    /\ HncIdle

HncUpdate(fragment_id, coherence, complecount) ==
    /\ hnc.core.sync_generation < MaxSyncGeneration
    /\ HncCall("update_fragment_coherence",
               update_fragment_coherence(hnc.core, fragment_id, coherence,
                                         complecount))
    /\ HncIdle

HncSetStatus(fragment_id, status) ==
    /\ HncCall("set_fragment_status",
               set_fragment_status(hnc.core, fragment_id, status))
    /\ HncIdle

HncSync(fragment_id, phase_memory_ref) ==
    /\ HncCall("sync_phase_memory",
               sync_phase_memory(hnc.core, fragment_id, phase_memory_ref))
    /\ HncIdle

HncCompleteSync(fragment_id) ==
    /\ HncCall("complete_sync", complete_sync(hnc.core, fragment_id))
    /\ HncIdle

InitHnc ==
    /\ TimerInit
    /\ RouterIdle
    /\ CodecIdle
    /\ derived = None
    /\ pair = None
    /\ coh = None
    /\ biofield = None
    /\ buffer = None
    /\ hnc = [core |-> HarmonicNexusCore_init, op |-> "init", ret |-> TRUE]
    /\ mesh = None

NextHnc ==
    \/ \E fragment_id \in FragmentIds, priority \in FragmentPriorities,
          initial_coherence \in FragmentCoherence :
            HncRegister(fragment_id, priority, initial_coherence)
    \/ \E fragment_id \in FragmentIds : HncUnregister(fragment_id)
    \/ \E fragment_id \in FragmentIds, coherence \in FragmentCoherence,
          complecount \in FragmentComplecounts :
            HncUpdate(fragment_id, coherence, complecount)
    \/ \E fragment_id \in FragmentIds, status \in FragmentStatus :
            HncSetStatus(fragment_id, status)
    \/ \E fragment_id \in FragmentIds, phase_memory_ref \in PhaseMemoryRefs :
            HncSync(fragment_id, phase_memory_ref)
    \/ \E fragment_id \in FragmentIds : HncCompleteSync(fragment_id)

SpecHnc == InitHnc /\ [][NextHnc]_vars

\* C30 as stated: after any sequence of register, unregister, coherence
\* update, status change, phase-memory sync and sync completion, the
\* completion flag is true exactly when there is an ACTIVE fragment and
\* every ACTIVE fragment has completion count 7, and the master completion
\* count is the minimum of the completion counts of the ACTIVE fragments.
C30_MasterMatchesActive ==
    LET h == hnc.core
        active == active_fragments(h)
    IN  /\ h.completion_flag
              <=> /\ active # {}
                  /\ \A id \in active : h.fragments[id].complecount = 7
        /\ active # {} => h.master_complecount = MinComplecount(h, active)

\* the rule is among the errors returned
Reported(rule) ==
    \E i \in 1..Len(validation.errors) : validation.errors[i] = rule

\* C20: validate returns (it has nothing that raises) the flag and the list
\* of the rules violated, each rule once; the flag is true exactly when the
\* list is empty, and the list contains the C1 rule exactly when somatic
\* consent is below 6 and the completion trace is 0.
C20_ValidateReportsC1 ==
    stage = "validated"
    => /\ Reported("C1") <=> (/\ header.consent_somatic_4bit < 6
                              /\ header.complecount_trace = 0)
       /\ validation.valid <=> validation.errors = <<>>
       /\ Reported("V3") <=> ~is_valid(header.rpp_address)
       /\ Reported("consent_somatic_4bit")
             <=> header.consent_somatic_4bit \notin 0..15
       /\ Reported("verbal_signal_strength")
             <=> header.verbal_signal_strength \notin 0..3
       /\ Reported("complecount_trace")
             <=> header.complecount_trace \notin 0..7
       /\ Reported("fallback_vector") <=> header.fallback_vector \notin 0..255
       /\ \A i, j \in 1..Len(validation.errors) :
             validation.errors[i] = validation.errors[j] => i = j

C20_Witness ==
    /\ stage = "validated"
    /\ header.consent_somatic_4bit = 3
    /\ header.verbal_signal_strength = 0
    /\ header.complecount_trace = 0
    /\ is_valid(header.rpp_address)
    /\ ~validation.valid
    /\ validation.errors = <<"C1">>

\* C19 as stated: every 18-byte buffer whose byte 17 is the CRC-8 of bytes
\* 0-16 decodes to a header, and a decode that fails fails with the
\* checksum error.
C19_OnlyChecksumErrors ==
    (stage = "decoded" /\ Len(wire) = HEADER_SIZE)
    => /\ wire[OFF_CRC + 1] = compute_crc8(Slice(wire, 0, OFF_CRC))
             => decoded.ok
       /\ ~decoded.ok => decoded.error = "CRC mismatch"

\* C9 as stated: encoding a header in which a field value exceeds its
\* declared bit width fails with a range error, so no bytes are returned
\* for it.
C9_RangeErrorOnEncode ==
    ~InRange(header) => stage \in {"new", "range_error"}

(***************************************************************************)
(* rpp/mesh.py: AddressType (IntEnum), MeshMessage, FragmentNode,           *)
(* FragmentMesh.  A message ID f"{source_id}-{counter}" is the pair of its  *)
(* two parts.  A message's source, and its destination when it is an        *)
(* address, are held as the address's fragment_id, the one field            *)
(* send_message reads.  A node is its sector, its connected flag and its    *)
(* neighbours; coherence, priority, heartbeat, payload and message type     *)
(* are left out.  A delivery is one call of _deliver_to_node.               *)
(***************************************************************************)
UNICAST == 0
MULTICAST == 1
BROADCAST == 2
SECTOR == 3

\* FragmentMesh.__init__
FragmentMesh_init ==
    [nodes |-> <<>>, delivered_ids |-> {}, message_counter |-> 0]

\* FragmentMesh.register_fragment: the mesh after the call
FragmentMesh_register_fragment(m, fragment_id, sector) ==
    [m EXCEPT !.nodes = Put(m.nodes, fragment_id,
                            [sector |-> sector, connected |-> TRUE,
                             neighbors |-> {}])]

FragmentMesh_unregister_fragment(m, fragment_id) ==
    IF fragment_id \in DOMAIN m.nodes
    THEN LET discarded == [k \in DOMAIN m.nodes |->
                              [m.nodes[k] EXCEPT
                                  !.neighbors = @ \ {fragment_id}]]
         IN  [mesh |-> [m EXCEPT !.nodes = Del(discarded, fragment_id)],
              ret |-> TRUE]
    ELSE [mesh |-> m, ret |-> FALSE]

connect_fragments(m, frag1_id, frag2_id) ==
    IF frag1_id \in DOMAIN m.nodes /\ frag2_id \in DOMAIN m.nodes
    THEN LET added == [m.nodes EXCEPT
                          ![frag1_id].neighbors = @ \cup {frag2_id}]
         IN  [mesh |-> [m EXCEPT !.nodes =
                           [added EXCEPT
                               ![frag2_id].neighbors = @ \cup {frag1_id}]],
              ret |-> TRUE]
    ELSE [mesh |-> m, ret |-> FALSE]

disconnect_fragments(m, frag1_id, frag2_id) ==
    IF frag1_id \in DOMAIN m.nodes /\ frag2_id \in DOMAIN m.nodes
    THEN LET discarded == [m.nodes EXCEPT
                              ![frag1_id].neighbors = @ \ {frag2_id}]
         IN  [mesh |-> [m EXCEPT !.nodes =
                           [discarded EXCEPT
                               ![frag2_id].neighbors = @ \ {frag1_id}]],
              ret |-> TRUE]
    ELSE [mesh |-> m, ret |-> FALSE]

set_fragment_connected(m, fragment_id, connected) ==
    IF fragment_id \in DOMAIN m.nodes
    THEN [mesh |-> [m EXCEPT !.nodes[fragment_id].connected = connected],
          ret |-> TRUE]
    ELSE [mesh |-> m, ret |-> FALSE]

\* the destinations that start with "SECTOR:", and RoutableSector[name] for
\* the name after the prefix, None where the lookup raises KeyError
SectorDestinations == {"SECTOR:BRIDGE", "SECTOR:CORE", "SECTOR:ATTIC"}

SectorNamed(destination) ==
    CASE destination = "SECTOR:BRIDGE" -> BRIDGE
      [] destination = "SECTOR:CORE" -> CORE
      [] OTHER -> None

\* FragmentMesh.create_message with a string destination: the mesh after
\* the call and the message returned, <<>> for None
create_message(m, source_id, destination) ==
    IF source_id \notin DOMAIN m.nodes
    THEN [mesh |-> m, ret |-> <<>>]
    ELSE LET counted == [m EXCEPT !.message_counter = @ + 1]
             message(address_type) ==
                 [message_id |-> <<source_id, counted.message_counter>>,
                  source |-> source_id,
                  destination |-> destination,
                  address_type |-> address_type]
         IN  IF destination = "BROADCAST"
             THEN [mesh |-> counted, ret |-> <<message(BROADCAST)>>]
             ELSE IF destination \in SectorDestinations
             THEN [mesh |-> counted, ret |-> <<message(SECTOR)>>]
             ELSE IF destination \in DOMAIN m.nodes
             THEN [mesh |-> counted, ret |-> <<message(UNICAST)>>]
             ELSE [mesh |-> counted, ret |-> <<>>]

\* FragmentMesh.get_nodes_in_sector, as fragment IDs
get_nodes_in_sector(m, sector) ==
    {k \in DOMAIN m.nodes :
        m.nodes[k].sector = sector /\ m.nodes[k].connected}

\* the fragments send_message calls _deliver_to_node for, once each
Recipients(m, message) ==
    IF message.address_type = BROADCAST
    THEN {k \in DOMAIN m.nodes :
             m.nodes[k].connected /\ k # message.source}
    ELSE IF message.address_type = SECTOR
    THEN IF SectorNamed(message.destination) = None THEN {}
         ELSE get_nodes_in_sector(m, SectorNamed(message.destination))
                 \ {message.source}
    ELSE IF message.address_type = UNICAST
    THEN IF /\ message.destination \in DOMAIN m.nodes
            /\ m.nodes[message.destination].connected
         THEN {message.destination}
         ELSE {}
    ELSE {}

\* mutant: the message ID is recorded but not looked up
send_message_again(m, message) ==
    [mesh |-> [m EXCEPT !.delivered_ids = @ \cup {message.message_id}],
     delivered |-> Recipients(m, message),
     ret |-> Cardinality(Recipients(m, message))]

\* FragmentMesh.send_message: the mesh after the call, the fragments
\* _deliver_to_node was called for, and the number returned
send_message(m, message) ==
    IF message.message_id \in m.delivered_ids
    THEN [mesh |-> m, delivered |-> {}, ret |-> 0]
    ELSE [mesh |-> [m EXCEPT !.delivered_ids = @ \cup {message.message_id}],
          delivered |-> Recipients(m, message),
          ret |-> Cardinality(Recipients(m, message))]

(***************************************************************************)
(* The mesh specifications.  mesh.fm is the FragmentMesh; the observers     *)
(* are mesh.held, what the latest create_message returned (the caller       *)
(* keeps one message at a time); mesh.calls, the number of                  *)
(* _deliver_to_node calls for that message and each fragment; and           *)
(* mesh.last, the latest send_message call of that message.  The values     *)
(* the node operations return are not recorded.                             *)
(***************************************************************************)
MeshFragmentIds == {"frag1", "frag2", "frag3"}
MeshSectors == {BRIDGE, CORE}
MeshDestinations == MeshFragmentIds \cup SectorDestinations \cup {"BROADCAST"}

NoMessage ==
    [message_id |-> <<"", 0>>, source |-> "", destination |-> "",
     address_type |-> UNICAST]

NoSend ==
    [op |-> "none", ret |-> 0, message |-> NoMessage, resent |-> FALSE,
     others |-> {}, delivered |-> {}]

MeshIdle ==
    UNCHANGED <<derived, pair, coh, biofield, buffer, hnc, timerVars,
                routerVars, codecVars>>

\* the calls counted so far, with one more for each fragment of delivered
Counted(calls, message_id, delivered) ==
    [k \in DOMAIN calls \cup {<<message_id, f>> : f \in delivered} |->
        (IF k \in DOMAIN calls THEN calls[k] ELSE 0)
        + (IF k[1] = message_id /\ k[2] \in delivered THEN 1 ELSE 0)]

MeshRegister(fragment_id, sector) ==
    /\ mesh' = [mesh EXCEPT
                   !.fm = FragmentMesh_register_fragment(@, fragment_id,
                                                         sector)]
    /\ MeshIdle

MeshUnregister(fragment_id) ==
    LET r == FragmentMesh_unregister_fragment(mesh.fm, fragment_id)
    IN  /\ mesh' = [mesh EXCEPT !.fm = r.mesh]
        /\ MeshIdle

MeshConnect(frag1_id, frag2_id) ==
    LET r == connect_fragments(mesh.fm, frag1_id, frag2_id)
    IN  /\ mesh' = [mesh EXCEPT !.fm = r.mesh]
        /\ MeshIdle

MeshDisconnect(frag1_id, frag2_id) ==
    LET r == disconnect_fragments(mesh.fm, frag1_id, frag2_id)
    IN  /\ mesh' = [mesh EXCEPT !.fm = r.mesh]
        /\ MeshIdle

MeshSetConnected(fragment_id, connected) ==
    LET r == set_fragment_connected(mesh.fm, fragment_id, connected)
    IN  /\ mesh' = [mesh EXCEPT !.fm = r.mesh]
        /\ MeshIdle

MeshCreate(source_id, destination) ==
    LET r == create_message(mesh.fm, source_id, destination)
    IN  /\ mesh.fm.message_counter < MaxMessages
        /\ mesh' = [mesh EXCEPT
                       !.fm = r.mesh,
                       !.held = r.ret,
                       !.calls = <<>>,
                       !.last = NoSend]
        /\ MeshIdle

MeshSend(message) ==
    LET r == send_message(mesh.fm, message)
    IN  /\ mesh' = [mesh EXCEPT
                       !.fm = r.mesh,
                       !.calls = Counted(@, message.message_id, r.delivered),
                       !.last = [op |-> "send_message", ret |-> r.ret,
                                 message |-> message,
                                 resent |-> (message.message_id
                                                \in mesh.fm.delivered_ids),
                                 others |-> {k \in DOMAIN mesh.fm.nodes :
                                                /\ mesh.fm.nodes[k].connected
                                                /\ k # message.source},
                                 delivered |-> r.delivered]]
        /\ MeshIdle

InitMesh ==
    /\ TimerInit
    /\ RouterIdle
    /\ CodecIdle
    /\ derived = None
    /\ pair = None
    /\ coh = None
    /\ biofield = None
    /\ buffer = None
    /\ hnc = None
    /\ mesh = [fm |-> FragmentMesh_init, held |-> <<>>, calls |-> <<>>,
               last |-> NoSend]

(***************************************************************************)
(* SpecMesh: fragments come, go and change their connected flag while       *)
(* messages are created and sent, the held message any number of times      *)
(***************************************************************************)
NextMesh ==
    \/ \E fragment_id \in MeshFragmentIds, sector \in MeshSectors :
           MeshRegister(fragment_id, sector)
    \/ \E fragment_id \in MeshFragmentIds : MeshUnregister(fragment_id)
    \/ \E fragment_id \in MeshFragmentIds, connected \in BOOLEAN :
           MeshSetConnected(fragment_id, connected)
    \/ \E source_id \in MeshFragmentIds, destination \in MeshDestinations :
           MeshCreate(source_id, destination)
    \/ mesh.held # <<>> /\ MeshSend(mesh.held[1])

SpecMesh == InitMesh /\ [][NextMesh]_vars

(***************************************************************************)
(* SpecMeshLinks: fragments are registered, unregistered, connected and     *)
(* disconnected in any order                                                *)
(***************************************************************************)
NextMeshLinks ==
    \/ \E fragment_id \in MeshFragmentIds : MeshRegister(fragment_id, BRIDGE)
    \/ \E fragment_id \in MeshFragmentIds : MeshUnregister(fragment_id)
    \/ \E frag1_id, frag2_id \in MeshFragmentIds :
           MeshConnect(frag1_id, frag2_id)
    \/ \E frag1_id, frag2_id \in MeshFragmentIds :
           MeshDisconnect(frag1_id, frag2_id)

SpecMeshLinks == InitMesh /\ [][NextMeshLinks]_vars

\* C38: no message is delivered to the same node more than once; sending a
\* message whose ID was sent before delivers it to no node and returns 0;
\* a broadcast sent for the first time is delivered to each connected node
\* other than the source, once, and to no other node.
C38_DeliveredAtMostOnce ==
    /\ \A k \in DOMAIN mesh.calls : mesh.calls[k] <= 1
    /\ (mesh.last.op = "send_message" /\ mesh.last.resent) =>
          (mesh.last.delivered = {} /\ mesh.last.ret = 0)
    /\ (/\ mesh.last.op = "send_message"
        /\ ~mesh.last.resent
        /\ mesh.last.message.address_type = BROADCAST) =>
          /\ mesh.last.delivered = mesh.last.others
          /\ mesh.last.ret = Cardinality(mesh.last.others)
          /\ \A f \in mesh.last.others :
                mesh.calls[<<mesh.last.message.message_id, f>>] = 1

\* a broadcast that reached two nodes is sent a second time
C38_Witness ==
    /\ mesh.last.op = "send_message"
    /\ mesh.last.resent
    /\ mesh.last.message.address_type = BROADCAST
    /\ mesh.last.ret = 0
    /\ \E f, g \in MeshFragmentIds :
          /\ f # g
          /\ <<mesh.last.message.message_id, f>> \in DOMAIN mesh.calls
          /\ <<mesh.last.message.message_id, g>> \in DOMAIN mesh.calls

\* C39: the neighbour relation is symmetric and refers only to registered
\* fragments: B is a neighbour of A exactly when A is a neighbour of B.
C39_NeighboursSymmetric ==
    \A a \in DOMAIN mesh.fm.nodes :
        \A b \in mesh.fm.nodes[a].neighbors :
            /\ b \in DOMAIN mesh.fm.nodes
            /\ a \in mesh.fm.nodes[b].neighbors

====
